---- MODULE Spec2Model ----
(***************************************************************************)
(* Model of py-voice-bot: the long-poll session (LongPollService), the     *)
(* update-to-message extraction (VKUpdate), and the dispatch of a message  *)
(* to the administrative handler, the general command handler or the      *)
(* synthesis path (VKBotApp, AdminController, MessageController).          *)
(*                                                                         *)
(* Python values are modelled as tagged records:                           *)
(*   [t |-> "int", i |-> n]   an integer                                   *)
(*   [t |-> "str", s |-> txt] a string; txt is a sequence of characters    *)
(*   [t |-> "dict", d |-> f]  a dict; f maps the keys present to values    *)
(*   [t |-> "none"]           None                                         *)
(*   [t |-> "other"]          any other value (a float, a list, ...)       *)
(* A character is " " (whitespace), "/" (the command marker) or an atom:   *)
(* a piece of text without whitespace or marker ("block", "7", "...").     *)
(* The texts of VoiceService are sequences of single characters.           *)
(***************************************************************************)
EXTENDS Integers, Sequences, FiniteSets, TLC

VARIABLES
    server,   \* LongPollService.server
    key,      \* LongPollService.key
    ts,       \* LongPollService.ts
    poll,     \* the last get_updates call: its inputs, what it did, its outcome
    pc,       \* position of VKBotApp.run: "poll", "dispatch", "sleep", "stopped"
    batch,    \* the updates of the current batch not yet passed to _process_update
    users,    \* table users, rows in registration order
    admins,   \* table admins, the set of vk_id
    last,     \* the last _process_update call: its input, its calls, its outcome
    upd,      \* the VKUpdate handed to extract_message (extraction specification)
    ext,      \* what extract_message made of upd
    vin,      \* the text handed to VoiceService, as the parts it is made of (voice specification)
    vout      \* the VoiceService function applied to vin and what it returned

vars == <<server, key, ts, poll, pc, batch, users, admins, last, upd, ext, vin, vout>>

(***************************************************************************)
(* Bounds                                                                  *)
(***************************************************************************)
MaxTs == 2        \* cursors are 1..MaxTs
MaxBatch == 2     \* longest batch of core updates a poll of the loop returns
MaxTail == 3      \* elements following the four fixed ones of an update
NumIds == 2       \* vk ids are 1..NumIds
MaxCalls == 3     \* the transport calls of one _process_update that may fail: the first MaxCalls

(***************************************************************************)
(* Python values                                                           *)
(***************************************************************************)
IntEl(n) == [t |-> "int", i |-> n]
StrEl(x) == [t |-> "str", s |-> x]
DictEl(f) == [t |-> "dict", d |-> f]
NoneEl == [t |-> "none"]
OtherEl == [t |-> "other"]

\* Python truthiness of a value
Truthy(e) ==
    CASE e.t = "int" -> e.i # 0
      [] e.t = "str" -> e.s # <<>>
      [] e.t = "dict" -> DOMAIN e.d # {}
      [] e.t = "none" -> FALSE
      [] OTHER -> TRUE

(***************************************************************************)
(* LongPollService                                                         *)
(***************************************************************************)
NoTs == -1        \* ts = None
NoServer == ""    \* server = None, key = None

Cursors == 1..MaxTs

\* The session fields as one value
Session == [server |-> server, key |-> key, ts |-> ts]

\* An answer of VKAPIService.get_long_poll_server: it raises, or it returns server,
\* key and ts
BootFails == [ok |-> FALSE, server |-> NoServer, key |-> NoServer, ts |-> NoTs]
BootGives(sv, k, c) == [ok |-> TRUE, server |-> sv, key |-> k, ts |-> c]

\* A run of get_updates in progress: the session fields, the bootstrap calls made,
\* a pending exception
Running(s) == [server |-> s.server, key |-> s.key, ts |-> s.ts, boots |-> 0, exc |-> FALSE]

\* _initialize that takes server and key from the answer and keeps the old cursor
InitializeKeepsCursor(r, boot) ==
    IF boot.ok
    THEN [r EXCEPT !.server = boot.server, !.key = boot.key, !.boots = @ + 1]
    ELSE [r EXCEPT !.boots = @ + 1, !.exc = TRUE]

\* LongPollService._initialize: the fields are assigned only when the call returned
_initialize(r, boot) ==
    IF boot.ok
    THEN [r EXCEPT !.server = boot.server, !.key = boot.key, !.ts = boot.ts,
                   !.boots = @ + 1]
    ELSE [r EXCEPT !.boots = @ + 1, !.exc = TRUE]

\* The updates get_updates keeps: non-empty lists, each as VKUpdate(update_data[0], update_data)
VKUpdates(items) ==
    LET kept == SelectSeq(items, LAMBDA it : it.isList /\ Len(it.data) > 0)
    IN [n \in 1..Len(kept) |-> [update_type |-> kept[n].data[1], update_data |-> kept[n].data]]

\* The outcome of a get_updates call
Returned(r, used, res) ==
    [server |-> r.server, key |-> r.key, ts |-> r.ts, boots |-> r.boots,
     raised |-> FALSE, polled |-> TRUE, used |-> used, result |-> res]
Raised(r) ==
    [server |-> r.server, key |-> r.key, ts |-> r.ts, boots |-> r.boots,
     raised |-> TRUE, polled |-> FALSE,
     used |-> [server |-> r.server, key |-> r.key, ts |-> r.ts], result |-> <<>>]

\* failed == 1 handled without adopting the cursor of the response
CursorLostKeepsCursor(r, used, resp) == Returned(r, used, <<>>)

\* get_updates on failed == 1: self.ts = data["ts"]; return []
\* (a response without ts: KeyError, caught, return [])
OnCursorLost(r, used, resp) ==
    IF resp.hasTs THEN Returned([r EXCEPT !.ts = resp.ts], used, <<>>)
    ELSE Returned(r, used, <<>>)

\* get_updates on failed in [2, 3]: self._initialize(); return []
\* (a raise of _initialize is caught by except Exception: return [])
OnKeyLost(r, used, boot) ==
    Returned([_initialize(r, boot) EXCEPT !.exc = FALSE], used, <<>>)

\* get_updates on any other response: self.ts = data["ts"], then the updates
\* (no ts: KeyError; updates that cannot be iterated: TypeError; both caught)
OnBatch(r, used, resp) ==
    IF ~resp.hasTs THEN Returned(r, used, <<>>)
    ELSE IF resp.updates = "notiterable" THEN Returned([r EXCEPT !.ts = resp.ts], used, <<>>)
    ELSE Returned([r EXCEPT !.ts = resp.ts], used,
                  IF resp.updates = "absent" THEN <<>> ELSE VKUpdates(resp.items))

\* The body of the try block of get_updates once the response was parsed
OnData(r, used, resp, boot) ==
    IF resp.hasFailed /\ resp.failed = 1 THEN OnCursorLost(r, used, resp)
    ELSE IF resp.hasFailed /\ resp.failed \in {2, 3} THEN OnKeyLost(r, used, boot)
    ELSE OnBatch(r, used, resp)

\* Only the timeout caught: any other failure of the request leaves get_updates
RequestErrorRaises(r, used, net) ==
    IF net = "timeout" THEN Returned(r, used, <<>>) ELSE Raised(r)

\* except requests.exceptions.Timeout: return []; except Exception: log, return []
OnRequestError(r, used, net) == Returned(r, used, <<>>)

\* LongPollService.get_updates on session s, with the answer resp of the long-poll
\* server and the answer boot of the bootstrap call, should one be made
get_updates(s, resp, boot) ==
    LET r0 == Running(s)
        r1 == IF r0.server = NoServer \/ r0.key = NoServer \/ r0.ts = NoTs
              THEN _initialize(r0, boot) ELSE r0
        used == [server |-> r1.server, key |-> r1.key, ts |-> r1.ts]
    IN IF r1.exc THEN Raised(r1)
       ELSE IF resp.net # "ok" THEN OnRequestError(r1, used, resp.net)
       ELSE OnData(r1, used, resp, boot)

\* A get_updates call as a step: the session fields change and poll records the call
\* (the answer of the bootstrap call only when one was made)
GetUpdates(resp, boot) ==
    \E o \in {get_updates(Session, resp, boot)} :
       /\ server' = o.server
       /\ key' = o.key
       /\ ts' = o.ts
       /\ poll' = [called |-> TRUE, resp |-> resp,
                   boot |-> IF o.boots > 0 THEN boot ELSE BootFails, pre |-> Session,
                   used |-> o.used, polled |-> o.polled, boots |-> o.boots,
                   raised |-> o.raised, result |-> o.result]

\* Answers of the long-poll server.  net: the request timed out, failed otherwise
\* ("error": connection error, "nonjson": the body is no JSON), or returned a JSON
\* object ("ok") with or without the fields failed, ts and updates.
NoAnswer(n) ==
    [net |-> n, hasFailed |-> FALSE, failed |-> 0, hasTs |-> FALSE, ts |-> NoTs,
     updates |-> "absent", items |-> <<>>]
Answer(hf, f, ht, c, u, its) ==
    [net |-> "ok", hasFailed |-> hf, failed |-> f, hasTs |-> ht, ts |-> c,
     updates |-> u, items |-> its]

NoPoll ==
    [called |-> FALSE, resp |-> NoAnswer("timeout"), boot |-> BootFails,
     pre |-> [server |-> NoServer, key |-> NoServer, ts |-> NoTs],
     used |-> [server |-> NoServer, key |-> NoServer, ts |-> NoTs],
     polled |-> FALSE, boots |-> 0, raised |-> FALSE, result |-> <<>>]

(***************************************************************************)
(* Strings                                                                 *)
(***************************************************************************)
RECURSIVE lstrip(_)
lstrip(x) == IF x # <<>> /\ Head(x) = " " THEN lstrip(Tail(x)) ELSE x

RECURSIVE rstrip(_)
rstrip(x) == IF x # <<>> /\ x[Len(x)] = " " THEN rstrip(SubSeq(x, 1, Len(x) - 1)) ELSE x

\* str.strip()
strip(x) == rstrip(lstrip(x))

(***************************************************************************)
(* VKUpdate                                                                *)
(***************************************************************************)
\* update_data[k], k counted from 0 as in the source
At(data, k) == data[k + 1]

\* dict.get(k) and dict.get(k, default)
GetOr(f, k, default) == IF k \in DOMAIN f THEN f[k] ELSE default
Get(f, k) == GetOr(f, k, NoneEl)

\* VKUpdate.is_message
is_message(u) == u.update_type = IntEl(4)

\* The test of the lowest bit, flags & 1, in place of flags & 2
LowestBit(n) == n % 2 = 1

\* flags & 2 for a non-negative flags
OutgoingBit(n) == (n \div 2) % 2 = 1

\* VKUpdate.is_outgoing: "yes", "no", or "raise" when flags & 2 raises TypeError
is_outgoing(u) ==
    IF ~is_message(u) \/ Len(u.update_data) < 3 THEN "no"
    ELSE LET flags == At(u.update_data, 2)
         IN IF flags.t # "int" THEN "raise"
            ELSE IF OutgoingBit(flags.i) THEN "yes" ELSE "no"

\* The strings the scan of extract_message skips, besides the empty one
Placeholders == {<<"...">>, <<" ", "...", " ">>, <<>>}

\* The scan run from the front of the update instead of from its end
RECURSIVE ScanTextForward(_)
ScanTextForward(data) ==
    IF data = <<>> THEN <<>>
    ELSE LET item == Head(data)
         IN IF item.t = "str" /\ strip(item.s) # <<>> /\ strip(item.s) \notin Placeholders
            THEN strip(item.s)
            ELSE ScanTextForward(Tail(data))

\* The scan of extract_message over reversed(update_data): the stripped value of the
\* last string that is, once stripped, neither empty nor a placeholder
RECURSIVE ScanText(_)
ScanText(data) ==
    IF data = <<>> THEN <<>>
    ELSE LET item == data[Len(data)]
         IN IF item.t = "str" /\ strip(item.s) # <<>> /\ strip(item.s) \notin Placeholders
            THEN strip(item.s)
            ELSE ScanText(SubSeq(data, 1, Len(data) - 1))

NoMessage == [kind |-> "none", user_id |-> NoneEl, text |-> <<>>, message_id |-> NoneEl]
ExtractRaises == [kind |-> "raise", user_id |-> NoneEl, text |-> <<>>, message_id |-> NoneEl]

\* The text extract_message holds before the scan: the stripped text field of a keyed
\* record, otherwise ""
KeyedText(e3) ==
    IF e3.t = "dict" THEN strip(GetOr(e3.d, "text", StrEl(<<>>)).s) ELSE <<>>

\* The text of the message: the text already held when there is one, otherwise the scan
MessageText(u) ==
    LET text == KeyedText(At(u.update_data, 3))
    IN IF text # <<>> THEN text ELSE ScanText(u.update_data)

\* The sender with the two keys of a keyed record tried in the other order
SenderOfUserIdFirst(e3) ==
    IF e3.t = "int" THEN e3
    ELSE IF e3.t = "dict"
    THEN IF Truthy(Get(e3.d, "user_id")) THEN Get(e3.d, "user_id") ELSE Get(e3.d, "from_id")
    ELSE NoneEl

\* The sender: element 3 itself, or from_id or user_id of a keyed record
SenderOf(e3) ==
    IF e3.t = "int" THEN e3
    ELSE IF e3.t = "dict"
    THEN IF Truthy(Get(e3.d, "from_id")) THEN Get(e3.d, "from_id") ELSE Get(e3.d, "user_id")
    ELSE NoneEl

\* VKUpdate.extract_message: a message, None, or an exception (TypeError of
\* flags & 2, AttributeError of None.strip())
extract_message(u) ==
    IF ~is_message(u) \/ Len(u.update_data) < 4 THEN NoMessage
    ELSE IF is_outgoing(u) = "raise" THEN ExtractRaises
    ELSE IF is_outgoing(u) = "yes" THEN NoMessage
    ELSE LET e3 == At(u.update_data, 3)
             message_id == IF e3.t = "int" THEN At(u.update_data, 1)
                           ELSE IF e3.t = "dict" THEN Get(e3.d, "id") ELSE NoneEl
         IN IF e3.t = "dict" /\ GetOr(e3.d, "text", StrEl(<<>>)).t # "str"
            THEN ExtractRaises
            ELSE IF ~Truthy(SenderOf(e3)) THEN NoMessage
            ELSE [kind |-> "msg", user_id |-> SenderOf(e3), text |-> MessageText(u),
                  message_id |-> message_id]

\* VKUpdate(update_type = update_data[0], update_data), as get_updates builds it
VKUpdate(data) == [update_type |-> data[1], update_data |-> data]

(***************************************************************************)
(* Message                                                                 *)
(***************************************************************************)
\* Message.is_command: self.text and self.text.startswith("/")
is_command(text) == text # <<>> /\ Head(text) = "/"

\* The first whitespace-free word of a string that does not start with whitespace
RECURSIVE FirstWord(_)
FirstWord(x) == IF x = <<>> \/ Head(x) = " " THEN <<>> ELSE <<Head(x)>> \o FirstWord(Tail(x))

\* str.split(maxsplit=1): no part, the only word, or the first word and the rest
\* without its leading whitespace
split1(x) ==
    LET y == lstrip(x)
        w == FirstWord(y)
        rest == lstrip(SubSeq(y, Len(w) + 1, Len(y)))
    IN IF y = <<>> THEN <<>> ELSE IF rest = <<>> THEN <<w>> ELSE <<w, rest>>

\* str.split(): every word
RECURSIVE split(_)
split(x) ==
    LET y == lstrip(x)
        w == FirstWord(y)
    IN IF y = <<>> THEN <<>> ELSE <<w>> \o split(SubSeq(y, Len(w) + 1, Len(y)))

\* Message.get_command: the first word of the text without its first character
get_command(text) ==
    IF is_command(text)
    THEN IF split1(text) # <<>> THEN Tail(split1(text)[1]) ELSE <<>>
    ELSE <<>>

\* str.lower() on the atoms that have an upper-case form here
LowerAtom(a) ==
    CASE a = "BLOCK" -> "block"
      [] a = "STATS" -> "stats"
      [] OTHER -> a
lower(x) == [n \in 1..Len(x) |-> LowerAtom(x[n])]

\* int(x): the decimal value of a string of digits, or ValueError
DigitValue(a) ==
    CASE a = "0" -> 0 [] a = "1" -> 1 [] a = "2" -> 2 [] a = "3" -> 3 [] a = "4" -> 4
      [] a = "5" -> 5 [] a = "6" -> 6 [] a = "7" -> 7 [] a = "8" -> 8 [] a = "9" -> 9
      [] OTHER -> -1
RECURSIVE DecimalValue(_)
DecimalValue(x) ==
    IF x = <<>> THEN 0
    ELSE 10 * DecimalValue(SubSeq(x, 1, Len(x) - 1)) + DigitValue(x[Len(x)])
int(x) ==
    LET y == strip(x)
    IN IF y # <<>> /\ \A n \in 1..Len(y) : DigitValue(y[n]) >= 0
       THEN [ok |-> TRUE, v |-> DecimalValue(y)]
       ELSE [ok |-> FALSE, v |-> 0]

(***************************************************************************)
(* DatabaseService                                                         *)
(***************************************************************************)
FirstAdmin == 1   \* FIRST_ADMIN_VK_ID, as a vk id of the model

\* The vk_id of the rows of table users
UserIds(us) == {us[n].vk_id : n \in 1..Len(us)}

\* DatabaseService.get_user_by_vk_id(vk_id) is not None
has_user(us, vk_id) == vk_id \in UserIds(us)

\* DatabaseService.is_user_blocked
is_user_blocked(us, vk_id) == \E n \in 1..Len(us) : us[n].vk_id = vk_id /\ us[n].is_blocked

\* DatabaseService.add_user: INSERT OR IGNORE, and an UPDATE of an existing row that
\* leaves is_blocked alone
add_user(us, vk_id, gender) ==
    IF has_user(us, vk_id)
    THEN [n \in 1..Len(us) |-> IF us[n].vk_id = vk_id THEN [us[n] EXCEPT !.gender = gender]
                                                       ELSE us[n]]
    ELSE Append(us, [vk_id |-> vk_id, is_blocked |-> FALSE, gender |-> gender])

\* DatabaseService.block_user and unblock_user: UPDATE users SET is_blocked
set_blocked(us, vk_id, b) ==
    [n \in 1..Len(us) |-> IF us[n].vk_id = vk_id THEN [us[n] EXCEPT !.is_blocked = b]
                                                  ELSE us[n]]
block_user(us, vk_id) == set_blocked(us, vk_id, TRUE)
unblock_user(us, vk_id) == set_blocked(us, vk_id, FALSE)

\* DatabaseService.is_admin and add_admin
is_admin(ad, vk_id) == vk_id \in ad
add_admin(ad, vk_id) == ad \cup {vk_id}

\* DatabaseService.get_all_users(filters): ORDER BY registration_date DESC; a filter
\* is "any" or the value wanted
RECURSIVE Reverse(_)
Reverse(x) == IF x = <<>> THEN <<>> ELSE Append(Reverse(Tail(x)), Head(x))
get_all_users(us, gender, blocked) ==
    SelectSeq(Reverse(us),
              LAMBDA row : /\ (gender.any \/ row.gender = gender.v)
                           /\ (blocked.any \/ row.is_blocked = blocked.v))

(***************************************************************************)
(* VKAPIService, as the controllers use it.  A run of _process_update is a *)
(* context c: the tables, the transport calls made so far, a pending       *)
(* exception, and what was reached.  env says which transport calls fail   *)
(* (by their number), whether users.get returns a profile, and whether     *)
(* synthesis succeeds.                                                     *)
(***************************************************************************)
Ids == 1..NumIds

\* The sex field users.get reports for a vk id
Sex(vk_id) == vk_id % 3

Envs == [fails : SUBSET (1..MaxCalls), profile : BOOLEAN, synth : BOOLEAN]

Context(us, ad) ==
    [users |-> us, admins |-> ad, calls |-> <<>>, exc |-> "none", fetched |-> FALSE,
     synth |-> FALSE, generated |-> FALSE, route |-> <<>>]

\* A call of _api_request behind send_message or upload_audio_message: it is logged,
\* and raises when env makes it fail.  Nothing runs while an exception is pending.
Call(c, env, op, to, kind, info) ==
    IF c.exc # "none" THEN c
    ELSE LET ok == (Len(c.calls) + 1) \notin env.fails
         IN [c EXCEPT !.calls = Append(@, [op |-> op, to |-> to, kind |-> kind,
                                           ok |-> ok, info |-> info]),
                      !.exc = IF ok THEN "none" ELSE "Exception"]

\* VKAPIService.send_message(to, <a text of the given kind>)
send_message(c, env, to, kind) == Call(c, env, "send", to, kind, <<>>)

\* VKAPIService.upload_audio_message(file, peer_id)
upload_audio_message(c, env, peer) == Call(c, env, "upload", peer, "audio", <<>>)

\* except Exception: send the error reply to the sender
ExceptReply(c, env, to, kind) ==
    IF c.exc = "none" THEN c ELSE send_message([c EXCEPT !.exc = "none"], env, to, kind)

Routed(c, r) == IF c.exc # "none" THEN c ELSE [c EXCEPT !.route = Append(@, r)]

(***************************************************************************)
(* AdminController                                                         *)
(***************************************************************************)
\* AdminController._handle_block
_handle_block(c, env, uid, args) ==
    IF args = <<>> THEN send_message(c, env, uid, "usage")
    ELSE IF ~int(args).ok THEN send_message(c, env, uid, "bad_id")
    ELSE LET vk_id == int(args).v
         IN IF vk_id = uid THEN send_message(c, env, uid, "block_self")
            ELSE IF is_admin(c.admins, vk_id) THEN send_message(c, env, uid, "block_admin")
            ELSE IF has_user(c.users, vk_id)
            THEN send_message([c EXCEPT !.users = block_user(@, vk_id)], env, uid, "blocked")
            ELSE send_message(c, env, uid, "not_found")

\* _handle_unblock without its except ValueError branch
HandleUnblockNoExcept(c, env, uid, args) ==
    IF args = <<>> THEN send_message(c, env, uid, "usage")
    ELSE IF ~int(args).ok THEN [c EXCEPT !.exc = "ValueError"]
    ELSE LET vk_id == int(args).v
         IN IF has_user(c.users, vk_id)
            THEN send_message([c EXCEPT !.users = unblock_user(@, vk_id)], env, uid,
                              "unblocked")
            ELSE send_message(c, env, uid, "not_found")

\* AdminController._handle_unblock
_handle_unblock(c, env, uid, args) ==
    IF args = <<>> THEN send_message(c, env, uid, "usage")
    ELSE IF ~int(args).ok THEN send_message(c, env, uid, "bad_id")
    ELSE LET vk_id == int(args).v
         IN IF has_user(c.users, vk_id)
            THEN send_message([c EXCEPT !.users = unblock_user(@, vk_id)], env, uid,
                              "unblocked")
            ELSE send_message(c, env, uid, "not_found")

\* AdminController._handle_send
_handle_send(c, env, uid, args) ==
    IF args = <<>> THEN send_message(c, env, uid, "usage")
    ELSE IF Len(split1(args)) < 2 THEN send_message(c, env, uid, "no_text")
    ELSE IF ~int(split1(args)[1]).ok THEN send_message(c, env, uid, "bad_id")
    ELSE LET target == int(split1(args)[1]).v
             c1 == send_message(c, env, target, "relay")
             c2 == send_message(c1, env, uid, "relayed")
         IN ExceptReply(c2, env, uid, "error")

\* AdminController._handle_admin
_handle_admin(c, env, uid, args) ==
    IF args = <<>> THEN send_message(c, env, uid, "usage")
    ELSE IF ~int(args).ok THEN send_message(c, env, uid, "bad_id")
    ELSE LET vk_id == int(args).v
         IN IF is_admin(c.admins, vk_id)
            THEN ExceptReply(send_message(c, env, uid, "already_admin"), env, uid, "error")
            ELSE LET c1 == [c EXCEPT !.admins = add_admin(@, vk_id)]
                     c2 == send_message(c1, env, uid, "admin_added")
                     c3 == send_message(c2, env, vk_id, "you_are_admin")
                 IN ExceptReply(c3, env, uid, "error")

\* AdminController._handle_stats
_handle_stats(c, env, uid) ==
    ExceptReply(send_message(c, env, uid, "stats"), env, uid, "error")

\* The filters and the text words /broadcast parses from its arguments; err when an
\* int() of a filter value raises ValueError
NoFilter == [any |-> TRUE, v |-> 0]
NoFlag == [any |-> TRUE, v |-> FALSE]
RECURSIVE ParseBroadcast(_, _)
ParseBroadcast(words, acc) ==
    IF words = <<>> \/ acc.err THEN acc
    ELSE LET part == Head(words)
         IN IF Head(part) = "gender="
            THEN ParseBroadcast(Tail(words),
                     IF int(Tail(part)).ok
                     THEN [acc EXCEPT !.gender = [any |-> FALSE, v |-> int(Tail(part)).v]]
                     ELSE [acc EXCEPT !.err = TRUE])
            ELSE IF Head(part) = "blocked="
            THEN ParseBroadcast(Tail(words),
                     IF int(Tail(part)).ok
                     THEN [acc EXCEPT !.blocked = [any |-> FALSE, v |-> int(Tail(part)).v # 0]]
                     ELSE [acc EXCEPT !.err = TRUE])
            ELSE ParseBroadcast(Tail(words), [acc EXCEPT !.text = Append(@, part)])

\* The send loop of _handle_broadcast that stops after the first recipient
BroadcastLoopFirstOnly(c, env, uid, rows, sent, failed, total) ==
    IF rows = <<>>
    THEN Call(c, env, "send", uid, "report", <<sent, failed, total>>)
    ELSE LET c1 == send_message(c, env, Head(rows).vk_id, "broadcast")
         IN IF c1.exc # "none"
            THEN Call([c1 EXCEPT !.exc = "none"], env, "send", uid, "report",
                      <<sent, failed + 1, total>>)
            ELSE Call(c1, env, "send", uid, "report", <<sent + 1, failed, total>>)

\* The send loop of _handle_broadcast and the report that follows it
RECURSIVE BroadcastLoop(_, _, _, _, _, _, _)
BroadcastLoop(c, env, uid, rows, sent, failed, total) ==
    IF rows = <<>>
    THEN Call(c, env, "send", uid, "report", <<sent, failed, total>>)
    ELSE LET c1 == send_message(c, env, Head(rows).vk_id, "broadcast")
         IN IF c1.exc # "none"
            THEN BroadcastLoop([c1 EXCEPT !.exc = "none"], env, uid, Tail(rows),
                               sent, failed + 1, total)
            ELSE BroadcastLoop(c1, env, uid, Tail(rows), sent + 1, failed, total)

\* AdminController._handle_broadcast
_handle_broadcast(c, env, uid, args) ==
    IF args = <<>> THEN send_message(c, env, uid, "usage")
    ELSE LET f == ParseBroadcast(split(args),
                      [gender |-> NoFilter, blocked |-> NoFlag, text |-> <<>>,
                       err |-> FALSE])
             rows == get_all_users(c.users, f.gender, f.blocked)
         IN IF f.err THEN send_message(c, env, uid, "error")
            ELSE IF f.text = <<>>
            THEN ExceptReply(send_message(c, env, uid, "no_broadcast_text"), env, uid, "error")
            ELSE IF rows = <<>>
            THEN ExceptReply(send_message(c, env, uid, "no_recipients"), env, uid, "error")
            ELSE ExceptReply(BroadcastLoop(c, env, uid, rows, 0, 0, Len(rows)),
                             env, uid, "error")

AdminCommands == {<<"block">>, <<"unblock">>, <<"send">>, <<"admin">>, <<"stats">>,
                  <<"broadcast">>}

\* AdminController.handle_command past the check of the sender: the command is
\* parsed and run; handled is the value returned
RunAdminCommand(c, env, uid, command) ==
    LET parts == split1(command)
        cmd == IF parts # <<>> THEN lower(parts[1]) ELSE <<>>
        args == IF Len(parts) > 1 THEN parts[2] ELSE <<>>
        c1 == Routed(c, "admin")
        done ==
            CASE cmd = <<"block">> -> _handle_block(c1, env, uid, args)
              [] cmd = <<"unblock">> -> _handle_unblock(c1, env, uid, args)
              [] cmd = <<"send">> -> _handle_send(c1, env, uid, args)
              [] cmd = <<"admin">> -> _handle_admin(c1, env, uid, args)
              [] cmd = <<"stats">> -> _handle_stats(c1, env, uid)
              [] cmd = <<"broadcast">> -> _handle_broadcast(c1, env, uid, args)
              [] OTHER -> c
    IN [ctx |-> done, handled |-> cmd \in AdminCommands]

\* handle_command without the check of the sender
HandleCommandUnchecked(c, env, uid, command) == RunAdminCommand(c, env, uid, command)

\* AdminController.handle_command: False at once for a sender who is no admin
handle_command(c, env, uid, command) ==
    IF ~is_admin(c.admins, uid) THEN [ctx |-> c, handled |-> FALSE]
    ELSE RunAdminCommand(c, env, uid, command)

(***************************************************************************)
(* MessageController                                                       *)
(***************************************************************************)
\* MessageController._ensure_user_exists: get_user_info swallows its own failures
\* and returns [] then, so nothing is raised here
_ensure_user_exists(c, env, uid) ==
    IF has_user(c.users, uid) THEN c
    ELSE IF env.profile
    THEN [c EXCEPT !.fetched = TRUE, !.users = add_user(@, uid, Sex(uid))]
    ELSE [c EXCEPT !.fetched = TRUE]

\* _handle_command that answers start and help and drops every other command
HandleCommandSilent(c, env, uid, text) ==
    LET command == get_command(text)
    IN IF command = <<"start">> THEN send_message(Routed(c, "general"), env, uid, "welcome")
       ELSE IF command = <<"help">> THEN send_message(Routed(c, "general"), env, uid, "help")
       ELSE Routed(c, "general")

\* MessageController._handle_command
_handle_command(c, env, uid, text) ==
    LET command == get_command(text)
    IN IF command = <<"start">> THEN send_message(Routed(c, "general"), env, uid, "welcome")
       ELSE IF command = <<"help">> THEN send_message(Routed(c, "general"), env, uid, "help")
       ELSE send_message(Routed(c, "general"), env, uid, "unknown")

\* The synthesis path without its except branch
SynthesizeUncaught(c, env, uid) ==
    LET c1 == [Routed(c, "synthesis") EXCEPT !.synth = TRUE, !.generated = env.synth,
                                            !.exc = IF env.synth THEN "none" ELSE "Exception"]
        c2 == upload_audio_message(c1, env, uid)
    IN send_message(c2, env, uid, "voice")

\* The synthesis path of handle_message: generate, upload, send, and the error reply
Synthesize(c, env, uid) ==
    LET c1 == [Routed(c, "synthesis") EXCEPT !.synth = TRUE, !.generated = env.synth,
                                            !.exc = IF env.synth THEN "none" ELSE "Exception"]
        c2 == upload_audio_message(c1, env, uid)
        c3 == send_message(c2, env, uid, "voice")
    IN ExceptReply(c3, env, uid, "error")

\* handle_message without the check for an empty text
HandleMessageNoEmptyCheck(c, env, uid, text) ==
    LET c1 == _ensure_user_exists(c, env, uid)
    IN IF is_user_blocked(c1.users, uid) THEN Routed(c1, "blocked")
       ELSE IF is_command(text) THEN _handle_command(c1, env, uid, text)
       ELSE Synthesize(c1, env, uid)

\* MessageController.handle_message
handle_message(c, env, uid, text) ==
    LET c1 == _ensure_user_exists(c, env, uid)
    IN IF is_user_blocked(c1.users, uid) THEN Routed(c1, "blocked")
       ELSE IF is_command(text) THEN _handle_command(c1, env, uid, text)
       ELSE IF strip(text) = <<>> THEN send_message(Routed(c1, "empty"), env, uid, "empty_text")
       ELSE Synthesize(c1, env, uid)

(***************************************************************************)
(* VKBotApp                                                                *)
(***************************************************************************)
\* The dispatch without the return that follows a handled administrative command
DispatchFallsThrough(c, env, uid, text) ==
    LET command_with_args == IF is_command(text) THEN Tail(text) ELSE text
        tried == is_command(text) /\ command_with_args # <<>>
        a == handle_command(c, env, uid, command_with_args)
    IN IF tried /\ a.ctx.exc # "none" THEN a.ctx
       ELSE IF tried THEN handle_message(a.ctx, env, uid, text)
       ELSE handle_message(c, env, uid, text)

\* The part of _process_update that follows the construction of the Message
Dispatch(c, env, uid, text) ==
    LET command_with_args == IF is_command(text) THEN Tail(text) ELSE text
        tried == is_command(text) /\ command_with_args # <<>>
        a == handle_command(c, env, uid, command_with_args)
    IN IF tried /\ (a.handled \/ a.ctx.exc # "none") THEN a.ctx
       ELSE handle_message(c, env, uid, text)

\* VKBotApp._process_update on update u with the tables us and ad: what extraction
\* gave, whether a Message was built, and the context at the end
_process_update(us, ad, u, env) ==
    LET m == IF is_message(u) THEN extract_message(u) ELSE NoMessage
        c == Context(us, ad)
    IN IF m.kind = "raise" THEN [m |-> m, built |-> FALSE, ctx |-> [c EXCEPT !.exc = "Exception"]]
       ELSE IF m.kind = "none" THEN [m |-> m, built |-> FALSE, ctx |-> c]
       ELSE [m |-> m, built |-> TRUE, ctx |-> Dispatch(c, env, m.user_id.i, m.text)]

(***************************************************************************)
(* VoiceService.  Here a text is a sequence of single characters; a Latin  *)
(* letter stands for any letter, Cyrillic ones included.  A regular        *)
(* expression is a sequence of items, each a character class with a        *)
(* quantifier; matching is greedy with backtracking, as in re.             *)
(***************************************************************************)
Digits == {"0", "1", "2", "3", "4", "5", "6", "7", "8", "9"}
Space == {" ", "\n", "\t"}
Quotes == {"\"", "'"}
Letters ==
    {"a", "b", "c", "d", "e", "i", "k", "l", "m", "n", "r", "s", "t", "u", "v", "x",
     "A", "B", "E", "I", "K", "M", "P", "R", "S", "T"}
\* \w
WordChars == Letters \cup Digits \cup {"_"}
Marks == {"|", "<", ">", "/", "=", ".", ",", ";", "?", "[", "]", "{", "}"}
Alphabet == WordChars \cup Space \cup Quotes \cup Marks

One(S) == [cls |-> S, lo |-> 1, many |-> FALSE]
Opt(S) == [cls |-> S, lo |-> 0, many |-> FALSE]
Star(S) == [cls |-> S, lo |-> 0, many |-> TRUE]
Plus(S) == [cls |-> S, lo |-> 1, many |-> TRUE]
\* A letter of a pattern compiled with re.IGNORECASE
Ci(l, u) == One({l, u})

\* The number of characters of x from position i on that are in S, up to the first
\* that is not
Run(x, i, S) ==
    LET stop == {j \in i..Len(x) : x[j] \notin S}
    IN IF stop = {} THEN Len(x) - i + 1 ELSE (CHOOSE j \in stop : \A k \in stop : j <= k) - i

\* F applied to the value of v: v = ...; F(v)
Then(v, F(_)) == CHOOSE r \in {F(e) : e \in {v}} : TRUE

\* The position after the match of the items k.. of re at position i of x, 0 when
\* there is none: each item takes the most characters that let the rest match.
\* Backtrack tries item k on n characters, then on fewer.
RECURSIVE MatchEnd(_, _, _, _), Backtrack(_, _, _, _, _)
MatchEnd(re, k, x, i) ==
    IF k > Len(re) THEN i
    ELSE Then(Run(x, i, re[k].cls),
              LAMBDA run : Backtrack(re, k, x, i, IF re[k].many \/ run = 0 THEN run ELSE 1))
Backtrack(re, k, x, i, n) ==
    IF n < re[k].lo THEN 0
    ELSE Then(MatchEnd(re, k + 1, x, i + n),
              LAMBDA e : IF e # 0 THEN e ELSE Backtrack(re, k, x, i, n - 1))

\* The matches re.sub finds from position i on: leftmost first, none overlapping
RECURSIVE Matches(_, _, _)
Matches(re, x, i) ==
    Then({j \in i..Len(x) : MatchEnd(re, 1, x, j) # 0},
         LAMBDA starts :
             IF starts = {} THEN <<>>
             ELSE Then(CHOOSE j \in starts : \A k \in starts : j <= k,
                       LAMBDA j : Then(MatchEnd(re, 1, x, j),
                       LAMBDA e : <<[from |-> j, to |-> e]>> \o Matches(re, x, e))))

\* x with the n-th match and those after it replaced by their replacements; at is
\* the position the copy has reached
RECURSIVE Splice(_, _, _, _, _)
Splice(x, ms, reps, n, at) ==
    IF n > Len(ms) THEN SubSeq(x, at, Len(x))
    ELSE SubSeq(x, at, ms[n].from - 1) \o reps[n] \o Splice(x, ms, reps, n + 1, ms[n].to)

\* re.sub(re, repl, x) for a constant replacement
sub(re, repl, x) ==
    Then(Matches(re, x, 1), LAMBDA ms : Splice(x, ms, [n \in 1..Len(ms) |-> repl], 1, 1))

\* float(g) <= t / 10 for g of the form digits, optional point, digits
LeqTenths(g, t) ==
    LET whole == Run(g, 1, Digits)
        frac == SubSeq(g, whole + 2, Len(g))
    IN /\ \A n \in 1..whole : g[n] = "0"
       /\ \/ frac = <<>>
          \/ DigitValue(frac[1]) < t
          \/ DigitValue(frac[1]) = t /\ \A n \in 2..Len(frac) : frac[n] = "0"

\* str.rstrip('s')
RECURSIVE rstrip_s(_)
rstrip_s(g) == IF g # <<>> /\ g[Len(g)] = "s" THEN rstrip_s(SubSeq(g, 1, Len(g) - 1)) ELSE g

\* replace_break and replace_timed_pause of process_pauses, on group 1 of the match
replace_break(time_str) ==
    IF LeqTenths(rstrip_s(time_str), 3) THEN <<",", " ">>
    ELSE IF LeqTenths(rstrip_s(time_str), 7) THEN <<";", " ">>
    ELSE <<".", " ">>
\* replace_timed_pause with another first threshold
ReplaceTimedPauseHalf(time_str) ==
    IF LeqTenths(time_str, 5) THEN <<",", " ">>
    ELSE IF LeqTenths(time_str, 7) THEN <<";", " ">>
    ELSE <<".", " ">>
replace_timed_pause(time_str) ==
    IF LeqTenths(time_str, 3) THEN <<",", " ">>
    ELSE IF LeqTenths(time_str, 7) THEN <<";", " ">>
    ELSE <<".", " ">>

\* <break\s+time=["\']?(\d+\.?\d*)\s*s["\']?\s*/> with re.IGNORECASE
BreakTag ==
    <<One({"<"}), Ci("b", "B"), Ci("r", "R"), Ci("e", "E"), Ci("a", "A"), Ci("k", "K"),
      Plus(Space), Ci("t", "T"), Ci("i", "I"), Ci("m", "M"), Ci("e", "E"), One({"="}),
      Opt(Quotes), Plus(Digits), Opt({"."}), Star(Digits), Star(Space), Ci("s", "S"),
      Opt(Quotes), Star(Space), One({"/"}), One({">"})>>

\* Group 1 of a match of BreakTag: the digits, the point and the digits that follow
\* the first digit of the match
BreakGroup(x, m) ==
    LET a == CHOOSE j \in m.from..(m.to - 1) :
                 x[j] \in Digits /\ \A k \in m.from..(j - 1) : x[k] \notin Digits
        whole == Run(x, a, Digits)
        point == IF a + whole <= Len(x) /\ x[a + whole] = "." THEN 1 ELSE 0
    IN SubSeq(x, a, a + whole + point + Run(x, a + whole + point, Digits) - 1)

\* \|(\d+\.?\d*)\|
TimedPause == <<One({"|"}), Plus(Digits), Opt({"."}), Star(Digits), One({"|"})>>

\* (?<!\|)\|(?!\|): the pipes of x with no pipe before or after them
LonePipe == <<One({"|"})>>
LonePipes(x) ==
    SelectSeq(Matches(LonePipe, x, 1),
              LAMBDA m : /\ (m.from > 1 => x[m.from - 1] # "|")
                         /\ (m.from < Len(x) => x[m.from + 1] # "|"))

\* The four passes of process_pauses: the break tags, the timed pauses, the
\* runs of three and of two pipes, the lone pipes
BreakPass(x) ==
    Then(Matches(BreakTag, x, 1),
         LAMBDA tags : Splice(x, tags,
                              [n \in 1..Len(tags) |-> replace_break(BreakGroup(x, tags[n]))],
                              1, 1))
TimedPass(x) ==
    Then(Matches(TimedPause, x, 1),
         LAMBDA timed : Splice(x, timed,
                               [n \in 1..Len(timed) |->
                                  replace_timed_pause(SubSeq(x, timed[n].from + 1,
                                                             timed[n].to - 2))],
                               1, 1))
TriplePass(x) == sub(<<One({"|"}), One({"|"}), One({"|"})>>, <<".", " ">>, x)
DoublePass(x) == sub(<<One({"|"}), One({"|"})>>, <<";", " ">>, x)
LonePass(x) ==
    Then(LonePipes(x), LAMBDA lone : Splice(x, lone, [n \in 1..Len(lone) |-> <<",", " ">>], 1, 1))

\* process_pauses with the bare-pipe passes before the timed pauses
ProcessPausesBarePipesFirst(text) ==
    Then(BreakPass(text),
         LAMBDA t1 : Then(TriplePass(t1),
         LAMBDA t2 : Then(DoublePass(t2),
         LAMBDA t3 : Then(LonePass(t3),
         LAMBDA t4 : TimedPass(t4)))))

\* VoiceService.process_pauses
process_pauses(text) ==
    Then(BreakPass(text),
         LAMBDA t1 : Then(TimedPass(t1),
         LAMBDA t2 : Then(TriplePass(t2),
         LAMBDA t3 : Then(DoublePass(t3),
         LAMBDA t4 : LonePass(t4)))))

\* ([а-яА-ЯёЁ\w]+)\[([а-яА-ЯёЁ\w]+)\]([а-яА-ЯёЁ\w]*) and the same with braces
StressMark(open, close) ==
    <<Plus(WordChars), One({open}), Plus(WordChars), One({close}), Star(WordChars)>>

\* \1\2'\3 for a match of StressMark: the apostrophe after the fragment
StressReplacementAfter(x, m) ==
    LET p == m.from + Run(x, m.from, WordChars)
        q == p + 1 + Run(x, p + 1, WordChars)
    IN SubSeq(x, m.from, p - 1) \o SubSeq(x, p + 1, q - 1) \o <<"'">>
       \o SubSeq(x, q + 1, m.to - 1)

\* \1'\2\3 for a match of StressMark
StressReplacement(x, m) ==
    LET p == m.from + Run(x, m.from, WordChars)
        q == p + 1 + Run(x, p + 1, WordChars)
    IN SubSeq(x, m.from, p - 1) \o <<"'">> \o SubSeq(x, p + 1, q - 1)
       \o SubSeq(x, q + 1, m.to - 1)

\* re.sub of one of the two stress patterns with count=1: the first match only
StressPassFirstOnly(x, open, close) ==
    Then(Matches(StressMark(open, close), x, 1),
         LAMBDA ms : IF ms = <<>> THEN x
                     ELSE Splice(x, <<ms[1]>>, <<StressReplacement(x, ms[1])>>, 1, 1))

\* re.sub of one of the two stress patterns
StressPass(x, open, close) ==
    Then(Matches(StressMark(open, close), x, 1),
         LAMBDA ms : Splice(x, ms, [n \in 1..Len(ms) |-> StressReplacement(x, ms[n])], 1, 1))

\* VoiceService.process_stress_marks
process_stress_marks(text) ==
    Then(StressPass(text, "[", "]"), LAMBDA t1 : StressPass(t1, "{", "}"))

\* VoiceService.process_control_marks
process_control_marks(text) == Then(process_pauses(text), LAMBDA t1 : process_stress_marks(t1))

\* str.split() of a text of single characters: its words
RECURSIVE SplitWords(_)
SplitWords(x) ==
    Then(SubSeq(x, 1 + Run(x, 1, Space), Len(x)),
         LAMBDA y : IF y = <<>> THEN <<>>
                    ELSE Then(Run(y, 1, Alphabet \ Space),
                              LAMBDA w : <<SubSeq(y, 1, w)>> \o SplitWords(SubSeq(y, w + 1, Len(y)))))

\* ' '.join(ws)
RECURSIVE JoinWords(_)
JoinWords(ws) ==
    IF ws = <<>> THEN <<>>
    ELSE IF Len(ws) = 1 THEN ws[1]
    ELSE ws[1] \o <<" ">> \o JoinWords(Tail(ws))

\* <br\s*/?> with re.IGNORECASE, and <[^>]+>
BrTag == <<One({"<"}), Ci("b", "B"), Ci("r", "R"), Star(Space), Opt({"/"}), One({">"})>>
AnyTag == <<One({"<"}), Plus(Alphabet \ {">"}), One({">"})>>

\* VoiceService.clean_text
clean_text(text) ==
    Then(sub(BrTag, <<" ">>, text),
         LAMBDA t1 : Then(sub(AnyTag, <<>>, t1),
         LAMBDA t2 : Then(SplitWords(t2), LAMBDA ws : JoinWords(ws))))

max_length == 1000

\* _text_to_wav that cuts the text and appends no ellipsis
TextToWavNoEllipsis(text) ==
    IF Run(text, 1, Space) = Len(text) THEN [raised |-> TRUE, spoken |-> <<>>]
    ELSE Then(process_control_marks(text),
              LAMBDA marked : [raised |-> FALSE,
                               spoken |-> IF Len(marked) > max_length
                                          THEN SubSeq(marked, 1, max_length)
                                          ELSE marked])

\* VoiceService._text_to_wav up to the call of the synthesizer: ValueError for a
\* blank text, otherwise the text handed to synthesize_wav
_text_to_wav(text) ==
    IF Run(text, 1, Space) = Len(text) THEN [raised |-> TRUE, spoken |-> <<>>]
    ELSE Then(process_control_marks(text),
              LAMBDA marked : [raised |-> FALSE,
                               spoken |-> IF Len(marked) > max_length
                                          THEN SubSeq(marked, 1, max_length) \o <<".", ".", ".">>
                                          ELSE marked])

\* VoiceService.generate_voice_message: ValueError for a text that is empty once
\* cleaned, otherwise what _text_to_wav makes of the cleaned text
generate_voice_message(text) ==
    Then(clean_text(text),
         LAMBDA text_cleaned : IF text_cleaned = <<>> THEN [raised |-> TRUE, spoken |-> <<>>]
                               ELSE _text_to_wav(text_cleaned))

(***************************************************************************)
(* Inputs                                                                  *)
(***************************************************************************)
SeqsUpTo(S, n) == UNION {[1..k -> S] : k \in 0..n}

\* An element of the updates list of a response: a list (an update) or anything else
Item(data) == [isList |-> TRUE, data |-> data]
NotAList == [isList |-> FALSE, data |-> <<>>]

\* A new-message update in the positional shape and in the keyed shape
Positional(flags, sender, text) ==
    <<IntEl(4), IntEl(7), IntEl(flags), IntEl(sender), IntEl(1700000000), StrEl(text)>>
Keyed(flags, sender, text) ==
    <<IntEl(4), IntEl(7), IntEl(flags),
      DictEl([from_id |-> IntEl(sender), text |-> StrEl(text), id |-> IntEl(9)])>>

Digit(n) == CASE n = 1 -> "1" [] n = 2 -> "2" [] n = 3 -> "3" [] n = 4 -> "4" [] OTHER -> "9"

\* The message texts of the dispatch: free text, general commands, administrative
\* commands with good, missing and malformed arguments
FreeTexts == {<<"hello">>, <<>>}
GeneralTexts == {<<"/", "start">>, <<"/", "help">>, <<"/", "foo">>, <<"/">>, <<"/", "START">>}
AdminTexts ==
    UNION {{<<"/", "block", " ", Digit(n)>>, <<"/", "unblock", " ", Digit(n)>>,
            <<"/", "admin", " ", Digit(n)>>,
            <<"/", "send", " ", Digit(n), " ", "hello">>} : n \in Ids}
    \cup {<<"/", "stats">>, <<"/", "broadcast", " ", "hello">>, <<"/", "broadcast">>,
          <<"/", "block">>, <<"/", "BLOCK", " ", "x">>, <<"/", "send", " ", "2">>,
          <<"/", "unblock">>, <<"/", "admin", " ", "x">>,
          <<"/", "broadcast", " ", "gender=", "x", " ", "hello">>,
          <<"/", "broadcast", " ", "blocked=", "0", " ", "hello">>,
          <<"/", "send">>, <<"/", "send", " ", "x", " ", "hello">>, <<"/", "admin">>,
          <<"/", "unblock", " ", "x">>,
          <<"/", " ", "block", " ", "2">>}
Texts == FreeTexts \cup GeneralTexts \cup AdminTexts

\* The updates of the loop: every text from every sender, alone in its batch ...
RichUpdates == {Positional(0, n, x) : n \in Ids, x \in Texts}

\* ... and batches of up to MaxBatch of these: both shapes, incoming and outgoing,
\* another event type, a flags field that is no integer, a keyed record with a null
\* text
CoreUpdates ==
    {Positional(0, 2, <<"hello">>), Keyed(0, 2, <<"hello">>), Keyed(1, 1, <<"/", "stats">>),
     Positional(2, 2, <<"hello">>), Keyed(3, 2, <<"/", "help">>),
     Positional(35, 1, <<"/", "block", " ", "2">>),
     <<IntEl(8), IntEl(-2), IntEl(0)>>,
     <<IntEl(4), IntEl(7), StrEl(<<"x">>), IntEl(2), StrEl(<<"hello">>)>>,
     <<IntEl(4), IntEl(7), IntEl(0), DictEl([from_id |-> IntEl(2), text |-> NoneEl])>>}

LoopBatches ==
    {<<Item(u)>> : u \in RichUpdates}
    \cup {[n \in 1..Len(b) |-> Item(b[n])] : b \in SeqsUpTo(CoreUpdates, MaxBatch)}

LoopBoots == {BootFails, BootGives("s1", "k1", 1)}
LoopResponses ==
    {Answer(FALSE, 0, TRUE, 1, "list", b) : b \in LoopBatches}
    \cup {NoAnswer("timeout"), NoAnswer("error"),
          Answer(TRUE, 1, TRUE, 1, "absent", <<>>), Answer(TRUE, 2, FALSE, NoTs, "absent", <<>>)}

(***************************************************************************)
(* The loop of VKBotApp.run                                                *)
(***************************************************************************)
NoLast ==
    [called |-> FALSE, update |-> VKUpdate(<<NoneEl>>), m |-> NoMessage, built |-> FALSE,
     pre |-> [users |-> <<>>, admins |-> {}], calls |-> <<>>, exc |-> "none",
     fetched |-> FALSE, synth |-> FALSE, generated |-> FALSE, profile |-> FALSE,
     route |-> <<>>]

NotExtracted == [kind |-> "pending", user_id |-> NoneEl, text |-> <<>>, message_id |-> NoneEl]

\* VoiceService has not been given a text
NotSpoken == [op |-> "none", raised |-> FALSE, out |-> <<>>]
\* No text: the value of vin outside the voice specification
NoText == [pre |-> <<>>, form |-> "plain", arg |-> <<<<>>>>, post |-> <<>>]

Init ==
    /\ server = NoServer /\ key = NoServer /\ ts = NoTs
    /\ poll = NoPoll
    /\ pc = "start"
    /\ batch = <<>>
    /\ users = <<>>
    /\ admins = {FirstAdmin}
    /\ last = NoLast
    /\ upd = VKUpdate(<<NoneEl>>)
    /\ ext = NotExtracted
    /\ vin = NoText
    /\ vout = NotSpoken

\* main: VKBotApp() builds LongPollService, whose constructor calls _initialize; when
\* it raises main logs the error and returns
Start ==
    /\ pc = "start"
    /\ \E boot \in LoopBoots :
         \E r \in {_initialize(Running(Session), boot)} :
            /\ server' = r.server /\ key' = r.key /\ ts' = r.ts
            /\ pc' = IF r.exc THEN "exited" ELSE "poll"
    /\ UNCHANGED <<poll, batch, users, admins, last, upd, ext, vin, vout>>

\* run: updates = self.long_poll.get_updates(); poll and last record the current
\* cycle of the while loop
Poll ==
    /\ pc = "poll"
    /\ \E resp \in LoopResponses, boot \in LoopBoots :
         /\ GetUpdates(resp, boot)
         /\ batch' = poll'.result
         /\ pc' = IF poll'.raised THEN "sleep" ELSE "dispatch"
    /\ last' = NoLast
    /\ UNCHANGED <<users, admins, upd, ext, vin, vout>>

\* run: self._process_update(update) for the next update of the batch; an exception
\* leaves the for loop for the except branch of run.  last.profile: the sender is
\* unknown to the store and users.get answers with the profile when asked
ProcessUpdate ==
    /\ pc = "dispatch"
    /\ batch # <<>>
    /\ \E env \in Envs :
         \E o \in {_process_update(users, admins, Head(batch), env)} :
            /\ users' = o.ctx.users
            /\ admins' = o.ctx.admins
            /\ last' = [called |-> TRUE, update |-> Head(batch), m |-> o.m,
                        built |-> o.built, pre |-> [users |-> users, admins |-> admins],
                        calls |-> o.ctx.calls, exc |-> o.ctx.exc,
                        fetched |-> o.ctx.fetched, synth |-> o.ctx.synth,
                        generated |-> o.ctx.generated,
                        profile |-> /\ o.built
                                    /\ ~has_user(users, o.m.user_id.i)
                                    /\ env.profile,
                        route |-> o.ctx.route]
            /\ batch' = IF o.ctx.exc # "none" THEN <<>> ELSE Tail(batch)
            /\ pc' = IF o.ctx.exc # "none" THEN "sleep" ELSE "dispatch"
    /\ UNCHANGED <<server, key, ts, poll, upd, ext, vin, vout>>

\* run: the for loop is through the batch, the while loop starts its next cycle
EndCycle ==
    /\ pc = "dispatch"
    /\ batch = <<>>
    /\ pc' = "poll"
    /\ poll' = NoPoll
    /\ last' = NoLast
    /\ UNCHANGED <<server, key, ts, batch, users, admins, upd, ext, vin, vout>>

\* run: except Exception: log, time.sleep(5), next cycle
Sleep ==
    /\ pc = "sleep"
    /\ pc' = "poll"
    /\ poll' = NoPoll
    /\ last' = NoLast
    /\ UNCHANGED <<server, key, ts, batch, users, admins, upd, ext, vin, vout>>

\* run: except KeyboardInterrupt: break
Interrupt ==
    /\ pc \in {"poll", "dispatch", "sleep"}
    /\ pc' = "stopped"
    /\ batch' = <<>>
    /\ poll' = NoPoll
    /\ last' = NoLast
    /\ UNCHANGED <<server, key, ts, users, admins, upd, ext, vin, vout>>

Next == Start \/ Poll \/ ProcessUpdate \/ EndCycle \/ Sleep \/ Interrupt

Spec == Init /\ [][Next]_vars

(***************************************************************************)
(* The session alone: get_updates called again and again on a session that *)
(* holds a server, a key and a cursor, with every answer of the long-poll  *)
(* server and of the bootstrap call                                        *)
(***************************************************************************)
Servers == {"s1", "s2"}
Keys == {"k1", "k2"}

PollItems == {Item(Positional(0, 1, <<"hello">>)), Item(<<>>), NotAList}
PollBoots == {BootFails} \cup {BootGives(sv, k, c) : sv \in Servers, k \in Keys, c \in Cursors}
PollResponses ==
    {NoAnswer(n) : n \in {"timeout", "error", "nonjson"}}
    \cup {Answer(hf, f, ht, c, u, its) :
            hf \in BOOLEAN, f \in 0..4, ht \in BOOLEAN, c \in Cursors,
            u \in {"absent", "notiterable", "list"}, its \in SeqsUpTo(PollItems, MaxBatch)}

InitPoll ==
    /\ server \in Servers /\ key \in Keys /\ ts \in Cursors
    /\ poll = NoPoll
    /\ pc = "poll"
    /\ batch = <<>>
    /\ users = <<>>
    /\ admins = {FirstAdmin}
    /\ last = NoLast
    /\ upd = VKUpdate(<<NoneEl>>)
    /\ ext = NotExtracted
    /\ vin = NoText
    /\ vout = NotSpoken

GetUpdatesCall ==
    /\ ~poll.called
    /\ \E resp \in PollResponses, boot \in PollBoots : GetUpdates(resp, boot)
    /\ UNCHANGED <<pc, batch, users, admins, last, upd, ext, vin, vout>>

\* The caller is through with the result and about to call again
NextCall ==
    /\ poll.called
    /\ poll' = NoPoll
    /\ UNCHANGED <<server, key, ts, pc, batch, users, admins, last, upd, ext, vin, vout>>

NextPoll == GetUpdatesCall \/ NextCall

SpecPoll == InitPoll /\ [][NextPoll]_vars

(***************************************************************************)
(* handle_message alone, on a Message with any text, whitespace included,  *)
(* for a sender the store knows, knows as blocked, or does not know        *)
(***************************************************************************)
MessageTexts ==
    {<<>>, <<" ">>, <<" ", " ">>, <<"hello">>, <<" ", "hello", " ">>, <<"/", "help">>,
     <<"/", "foo">>}
MessageTables ==
    {<<>>,
     <<[vk_id |-> 2, is_blocked |-> FALSE, gender |-> Sex(2)]>>,
     <<[vk_id |-> 2, is_blocked |-> TRUE, gender |-> Sex(2)]>>,
     <<[vk_id |-> 1, is_blocked |-> FALSE, gender |-> Sex(1)],
       [vk_id |-> 2, is_blocked |-> TRUE, gender |-> Sex(2)]>>}

InitMessage ==
    /\ server = NoServer /\ key = NoServer /\ ts = NoTs
    /\ poll = NoPoll
    /\ pc = "handle"
    /\ batch = <<>>
    /\ users \in MessageTables
    /\ admins = {FirstAdmin}
    /\ last = NoLast
    /\ upd = VKUpdate(<<NoneEl>>)
    /\ ext = NotExtracted
    /\ vin = NoText
    /\ vout = NotSpoken

\* self.message_controller.handle_message(message)
HandleMessage ==
    /\ ~last.called
    /\ \E uid \in Ids, text \in MessageTexts, env \in Envs :
         \E o \in {handle_message(Context(users, admins), env, uid, text)} :
            /\ users' = o.users
            /\ admins' = o.admins
            /\ last' = [called |-> TRUE, update |-> VKUpdate(<<NoneEl>>),
                        m |-> [kind |-> "msg", user_id |-> IntEl(uid), text |-> text,
                               message_id |-> NoneEl],
                        built |-> TRUE, pre |-> [users |-> users, admins |-> admins],
                        calls |-> o.calls, exc |-> o.exc, fetched |-> o.fetched,
                        synth |-> o.synth, generated |-> o.generated,
                        profile |-> ~has_user(users, uid) /\ env.profile,
                        route |-> o.route]
    /\ UNCHANGED <<server, key, ts, poll, pc, batch, upd, ext, vin, vout>>

SpecMessage == InitMessage /\ [][HandleMessage]_vars

(***************************************************************************)
(* extract_message alone, on every update built from a small alphabet      *)
(***************************************************************************)
AbsentEl == [t |-> "absent"]

\* A dict with the keys whose value is given
Dict(fr, us, tx, id) ==
    LET all == [from_id |-> fr, user_id |-> us, text |-> tx, id |-> id]
        keys == {k \in DOMAIN all : all[k].t # "absent"}
    IN DictEl([k \in keys |-> all[k]])

ExtractFlags == {IntEl(0), IntEl(1), IntEl(2), IntEl(19), StrEl(<<"x">>)}
ExtractIds == {IntEl(7)}
ExtractRecords ==
    {Dict(fr, us, tx, IntEl(9)) :
        fr \in {AbsentEl, IntEl(0), IntEl(5)}, us \in {AbsentEl, IntEl(6)},
        tx \in {AbsentEl, NoneEl, StrEl(<<>>), StrEl(<<" ", "hi">>)}}
    \cup {Dict(IntEl(5), AbsentEl, StrEl(<<"hi">>), AbsentEl)}
ExtractSenders == {IntEl(0), IntEl(5), NoneEl} \cup ExtractRecords
ExtractTail ==
    {StrEl(<<"...">>), StrEl(<<>>), StrEl(<<"hello">>), StrEl(<<" ", "yo", " ">>), OtherEl}

ExtractInputs ==
    {<<IntEl(4), id, fl, e3>> \o tail :
        id \in ExtractIds, fl \in ExtractFlags, e3 \in ExtractSenders,
        tail \in SeqsUpTo(ExtractTail, MaxTail)}
    \cup {<<IntEl(8), IntEl(7), IntEl(0), IntEl(5), StrEl(<<"hello">>)>>,
          <<IntEl(4), IntEl(7), IntEl(0)>>, <<IntEl(4), IntEl(7)>>, <<IntEl(4)>>,
          <<StrEl(<<"hello">>), IntEl(7), IntEl(0), IntEl(5)>>}

InitExtract ==
    /\ server = NoServer /\ key = NoServer /\ ts = NoTs
    /\ poll = NoPoll
    /\ pc = "extract"
    /\ batch = <<>>
    /\ users = <<>>
    /\ admins = {FirstAdmin}
    /\ last = NoLast
    /\ upd \in {VKUpdate(data) : data \in ExtractInputs}
    /\ ext = NotExtracted
    /\ vin = NoText
    /\ vout = NotSpoken

\* message_data = update.extract_message()
Extract ==
    /\ ext.kind = "pending"
    /\ ext' = extract_message(upd)
    /\ UNCHANGED <<server, key, ts, poll, pc, batch, users, admins, last, upd, vin, vout>>

SpecExtract == InitExtract /\ [][Extract]_vars

(***************************************************************************)
(* Specification of the text processing of VoiceService: one of            *)
(* process_pauses, process_stress_marks and generate_voice_message applied *)
(* to a text.  A text is a token (a break tag, a timed pause, a run of     *)
(* pipes, a stress mark) between two surrounding texts, or a plain text.   *)
(***************************************************************************)
MaxPad == 2       \* longest text before and after a token
MaxRun == 5       \* longest run of pipes
MaxWord == 2      \* longest word, stressed fragment and rest of a stress mark
MaxPlain == 3     \* longest plain text

\* <break time="{d}s"/>
BreakOf(d) ==
    <<"<", "b", "r", "e", "a", "k", " ", "t", "i", "m", "e", "=", "\"">> \o d
    \o <<"s", "\"", "/", ">">>
\* |{d}|
TimedOf(d) == <<"|">> \o d \o <<"|">>
PipesOf(k) == [n \in 1..k |-> "|"]

\* The text of an input
TextOf(v) ==
    v.pre
    \o (CASE v.form = "tag" -> BreakOf(v.arg[1])
          [] v.form = "timed" -> TimedOf(v.arg[1])
          [] v.form = "bracket" -> v.arg[1] \o <<"[">> \o v.arg[2] \o <<"]">> \o v.arg[3]
          [] v.form = "brace" -> v.arg[1] \o <<"{">> \o v.arg[2] \o <<"}">> \o v.arg[3]
          [] OTHER -> v.arg[1])
    \o v.post

Durations ==
    {<<"0">>, <<"0", ".", "2">>, <<"0", ".", "3">>, <<"0", ".", "3", "1">>,
     <<"0", ".", "5">>, <<"0", ".", "7", "0">>, <<"0", ".", "7", "1">>, <<"1">>,
     <<"2", ".">>}
Pads == SeqsUpTo({"a", "|", "5"}, MaxPad)
Words == SeqsUpTo({"a", "u"}, MaxWord)
WordPads == {<<>>, <<" ">>, <<"x", " ">>, <<" ", "x">>}
PlainTexts ==
    SeqsUpTo({"a", "'", "[", "]"}, MaxPlain) \cup SeqsUpTo({"a", "'", "{", "}"}, MaxPlain)
    \cup {<<" ">>, <<"<", "b", ">">>, <<"<", "b", ">", "a", "<", "/", "b", ">">>,
          <<"a", "<", "B", "r", " ", "/", ">", "b">>, <<" ", "a", " ", "\n", "b", " ">>,
          <<"<", "B", "R", "E", "A", "K", "\n", " ", "T", "I", "m", "e", "=", "1", " ",
            "S", " ", "/", ">">>,
          <<"<", "b", "r", "e", "a", "k", " ", "t", "i", "m", "e", "=", "'", "1", ".",
            "x", "s", "/", ">">>}

\* The examples of the docstring of VoiceGenerator.process_control_marks, in Latin
\* letters
StressExample == <<"u", "[", "u", "d", "a", "r", "]", "d", "a", "r", "e", "n", "i", "e">>
PauseExample ==
    <<"P", "r", "i", "v", "e", "t", " ", "|", " ", "k", "a", "k", " ", "d", "e", "l", "a", "?">>

\* Texts with an apostrophe before a stress mark, alone or followed by a second mark
MarkedTails ==
    {<<>>, <<"'", "a">>, <<"[", "a", "]">>, <<"{", "a", "}">>,
     <<" ", "a", "[", "a", "]">>, <<" ", "a", "{", "a", "}">>}
MarkedTexts ==
    {<<"a", "'">> \o w \o <<d[1]>> \o f \o <<d[2]>> \o r \o q :
        w \in Words \ {<<>>}, d \in {<<"[", "]">>, <<"{", "}">>}, f \in Words \ {<<>>},
        r \in Words, q \in MarkedTails}

\* n characters, a letter and a comma in turn
LongText(n) == [k \in 1..n |-> IF k % 2 = 1 THEN "a" ELSE ","]
\* Texts around max_length: of that length, one longer, half as long again, one
\* shorter with a pipe at the end, and of that length in a tag
LongTexts ==
    {LongText(max_length), LongText(max_length + 1), LongText(max_length + max_length \div 2),
     LongText(max_length - 1) \o <<"|">>,
     <<"<", "b", ">">> \o LongText(max_length) \o <<"<", "/", "b", ">">>}

VoiceInputs ==
    {[pre |-> p, form |-> f, arg |-> <<d>>, post |-> q] :
        p \in Pads, f \in {"tag", "timed"}, d \in Durations, q \in Pads}
    \cup {[pre |-> p, form |-> "pipes", arg |-> <<PipesOf(k)>>, post |-> q] :
            p \in Pads, k \in 1..MaxRun, q \in Pads}
    \cup {[pre |-> p, form |-> f, arg |-> <<w, s, r>>, post |-> q] :
            p \in WordPads, f \in {"bracket", "brace"}, w \in Words \ {<<>>},
            s \in Words \ {<<>>}, r \in Words, q \in WordPads}
    \cup {[pre |-> <<>>, form |-> "plain", arg |-> <<x>>, post |-> <<>>] :
            x \in PlainTexts \cup {StressExample, PauseExample} \cup MarkedTexts \cup LongTexts}

InitVoice ==
    /\ server = NoServer /\ key = NoServer /\ ts = NoTs
    /\ poll = NoPoll
    /\ pc = "voice"
    /\ batch = <<>>
    /\ users = <<>>
    /\ admins = {FirstAdmin}
    /\ last = NoLast
    /\ upd = VKUpdate(<<NoneEl>>)
    /\ ext = NotExtracted
    /\ vin \in VoiceInputs
    /\ vout = NotSpoken

\* processed = self.process_pauses(text)
ProcessPauses ==
    /\ vout.op = "none"
    /\ vout' = [op |-> "process_pauses", raised |-> FALSE, out |-> process_pauses(TextOf(vin))]
    /\ UNCHANGED <<server, key, ts, poll, pc, batch, users, admins, last, upd, ext, vin>>

\* processed = self.process_stress_marks(text)
ProcessStressMarks ==
    /\ vout.op = "none"
    /\ vout' = [op |-> "process_stress_marks", raised |-> FALSE,
                out |-> process_stress_marks(TextOf(vin))]
    /\ UNCHANGED <<server, key, ts, poll, pc, batch, users, admins, last, upd, ext, vin>>

\* self.voice_service.generate_voice_message(text): out is the text handed to the
\* synthesizer
GenerateVoiceMessage ==
    /\ vout.op = "none"
    /\ \E g \in {generate_voice_message(TextOf(vin))} :
          vout' = [op |-> "generate_voice_message", raised |-> g.raised, out |-> g.spoken]
    /\ UNCHANGED <<server, key, ts, poll, pc, batch, users, admins, last, upd, ext, vin>>

\* processed = VoiceGenerator.process_control_marks(text)
ProcessControlMarks ==
    /\ vout.op = "none"
    /\ vout' = [op |-> "process_control_marks", raised |-> FALSE,
                out |-> process_control_marks(TextOf(vin))]
    /\ UNCHANGED <<server, key, ts, poll, pc, batch, users, admins, last, upd, ext, vin>>

NextVoice ==
    ProcessPauses \/ ProcessStressMarks \/ ProcessControlMarks \/ GenerateVoiceMessage

SpecVoice == InitVoice /\ [][NextVoice]_vars

(***************************************************************************)
(* Properties of extract_message (specification SpecExtract)               *)
(***************************************************************************)
\* A string without its leading and trailing whitespace, stated by positions
StrippedOf(x) ==
    LET solid == {n \in 1..Len(x) : x[n] # " "}
        first == CHOOSE n \in solid : \A k \in solid : n <= k
        final == CHOOSE n \in solid : \A k \in solid : n >= k
    IN IF solid = {} THEN <<>> ELSE SubSeq(x, first, final)

\* The positions of the strings of an update that are, once stripped, neither empty
\* nor the placeholder "..."
TextPositions(data) ==
    {n \in 1..Len(data) : /\ data[n].t = "str"
                          /\ StrippedOf(data[n].s) # <<>>
                          /\ StrippedOf(data[n].s) # <<"...">>}

\* The stripped value of the last such string, or "" when there is none
LastText(data) ==
    IF TextPositions(data) = {} THEN <<>>
    ELSE StrippedOf(data[CHOOSE n \in TextPositions(data) :
                              \A k \in TextPositions(data) : n >= k].s)

\* extract_message has run on a new-message update of at least 4 elements whose
\* flags field is an integer with the outgoing bit clear
ExtractedIncoming ==
    /\ ext.kind # "pending"
    /\ upd.update_type = IntEl(4)
    /\ Len(upd.update_data) >= 4
    /\ upd.update_data[3].t = "int"
    /\ (upd.update_data[3].i \div 2) % 2 = 0

\* C9: for a new-message update (type tag 4, at least 4 elements, outgoing bit clear)
\* whose element at index 3 is a non-zero integer, extract_message yields sender id =
\* element 3, message id = element 1, and text = the (stripped) first string found
\* from the end whose stripped value is non-empty and is not "...", or "" when there
\* is no such string.
C9_PositionalExtraction ==
    (ExtractedIncoming /\ upd.update_data[4].t = "int" /\ upd.update_data[4].i # 0)
    => /\ ext.kind = "msg"
       /\ ext.user_id = upd.update_data[4]
       /\ ext.message_id = upd.update_data[2]
       /\ ext.text = LastText(upd.update_data)

\* The example of the specification: sender 5, message id 7, trailing tokens
\* "...", "", "hello"
C9_Witness ==
    /\ upd.update_data = <<IntEl(4), IntEl(7), IntEl(0), IntEl(5),
                           StrEl(<<"...">>), StrEl(<<>>), StrEl(<<"hello">>)>>
    /\ ext = [kind |-> "msg", user_id |-> IntEl(5), text |-> <<"hello">>,
              message_id |-> IntEl(7)]

\* The keyed record of the update and its fields
Record == upd.update_data[4].d
HasKey(k) == k \in DOMAIN Record
RecordText == IF HasKey("text") THEN StrippedOf(Record["text"].s) ELSE <<>>

\* extract_message has run on an incoming new-message update whose element at
\* index 3 is a keyed record with a text that is a string or absent
ExtractedKeyed ==
    /\ ExtractedIncoming
    /\ upd.update_data[4].t = "dict"
    /\ (HasKey("text") => Record["text"].t = "str")

\* The sender of a keyed record: from_id, or user_id when from_id is absent or zero
KeyedSender ==
    IF HasKey("from_id") /\ Record["from_id"] # IntEl(0) THEN Record["from_id"]
    ELSE IF HasKey("user_id") THEN Record["user_id"] ELSE NoneEl

\* C10 as stated: for a keyed record the text is the record's text field only; when
\* that is empty or absent the text is "", whatever else the update holds.
C10_TextFromRecordOnly ==
    (ExtractedKeyed /\ ext.kind = "msg") => ext.text = RecordText

\* C10 amended: sender from from_id (user_id when from_id is absent or zero), message
\* id from id, text from the record's text field when that is non-empty once
\* stripped; when it is empty or absent the text is the one the scan of the update's
\* elements from the end finds, as in the positional shape ("" when it finds none).
\* Without a sender there is no message.
C10_KeyedExtraction ==
    ExtractedKeyed
    => IF KeyedSender \in {NoneEl, IntEl(0)} THEN ext.kind = "none"
       ELSE /\ ext.kind = "msg"
            /\ ext.user_id = KeyedSender
            /\ ext.message_id = (IF HasKey("id") THEN Record["id"] ELSE NoneEl)
            /\ ext.text = (IF RecordText # <<>> THEN RecordText
                           ELSE LastText(upd.update_data))

\* A keyed record with an empty text and sender from user_id, whose message got its
\* text from a trailing element
C10_Witness ==
    /\ ExtractedKeyed
    /\ ~HasKey("from_id")
    /\ RecordText = <<>>
    /\ ext.kind = "msg"
    /\ ext.user_id = IntEl(6)
    /\ ext.text = <<"hello">>

(***************************************************************************)
(* Properties of get_updates (specification SpecPoll)                      *)
(***************************************************************************)
\* get_updates has returned or raised, and the long-poll server had answered with a
\* failed field of value 2 or 3
KeyLost ==
    /\ poll.called
    /\ poll.resp.net = "ok"
    /\ poll.resp.hasFailed
    /\ poll.resp.failed \in {2, 3}

\* C3: when the response carries failed = 2 or 3 and the bootstrap call made in
\* reaction to it fails, get_updates propagates that error to its caller instead of
\* returning a batch.
C3_BootstrapFailurePropagates ==
    (KeyLost /\ poll.boots > 0 /\ ~poll.boot.ok) => poll.raised

\* C4: when the response carries failed = 2 or 3 and the bootstrap call succeeds,
\* get_updates makes exactly one bootstrap call, replaces server, key and ts with the
\* values of the bootstrap answer and returns an empty batch; the fields stay so
\* until the next call, and every call polls with the fields it finds.
C4_ReinitializeOnKeyLost ==
    /\ []((KeyLost /\ poll.boot.ok)
          => /\ poll.boots = 1
             /\ server = poll.boot.server /\ key = poll.boot.key /\ ts = poll.boot.ts
             /\ ~poll.raised
             /\ poll.result = <<>>)
    /\ [][(KeyLost /\ poll.boot.ok)
          => (server' = poll.boot.server /\ key' = poll.boot.key /\ ts' = poll.boot.ts)]_vars
    /\ [][(~poll.called /\ poll'.called)
          => (poll'.polled /\ poll'.used = [server |-> server, key |-> key, ts |-> ts])]_vars

\* A reinitialization that changed server, key and cursor
C4_Witness ==
    /\ KeyLost
    /\ poll.resp.failed = 3
    /\ poll.boot.ok
    /\ poll.boots = 1
    /\ server # poll.pre.server /\ key # poll.pre.key /\ ts # poll.pre.ts
    /\ server = poll.boot.server /\ key = poll.boot.key /\ ts = poll.boot.ts

\* C5: when the response carries failed = 1, get_updates sets ts to the cursor
\* supplied in the response, leaves server and key unchanged, makes no bootstrap
\* call and returns an empty batch.
C5_CursorLost ==
    (poll.called /\ poll.resp.net = "ok" /\ poll.resp.hasFailed /\ poll.resp.failed = 1
        /\ poll.resp.hasTs)
    => /\ ts = poll.resp.ts
       /\ server = poll.pre.server /\ key = poll.pre.key
       /\ poll.boots = 0
       /\ ~poll.raised
       /\ poll.result = <<>>

\* failed = 1 with a cursor other than the session's, and with updates in the response
C5_Witness ==
    /\ poll.called /\ poll.resp.net = "ok"
    /\ poll.resp.hasFailed /\ poll.resp.failed = 1
    /\ poll.resp.hasTs /\ poll.resp.ts # poll.pre.ts
    /\ poll.resp.updates = "list" /\ poll.resp.items # <<>>
    /\ ts = poll.resp.ts
    /\ poll.result = <<>>

\* C6: for every response that contains a failed field, whatever its value and
\* whatever else it carries, get_updates returns an empty batch.
C6_FailedNeverWithBatch ==
    (poll.called /\ poll.resp.net = "ok" /\ poll.resp.hasFailed) => poll.result = <<>>

\* C7: once the session holds a server, key and cursor, get_updates never raises for
\* a failure of the long-poll request: on a timeout it returns an empty batch and
\* leaves server, key and cursor unchanged, and on any other request error (connection
\* error, non-JSON body, response without a cursor) it returns an empty batch.
C7_RequestFailuresSwallowed ==
    /\ poll.called => ~poll.raised
    /\ (poll.called /\ poll.resp.net = "timeout")
       => (poll.result = <<>> /\ poll.boots = 0 /\ Session = poll.pre)
    /\ (poll.called /\ (poll.resp.net \in {"error", "nonjson"} \/ ~poll.resp.hasTs))
       => poll.result = <<>>

\* A response without a cursor that carries updates, answered with an empty batch
C7_Witness ==
    /\ poll.called
    /\ poll.resp.net = "ok" /\ ~poll.resp.hasFailed /\ ~poll.resp.hasTs
    /\ poll.resp.updates = "list" /\ poll.resp.items # <<>>
    /\ poll.result = <<>>
    /\ ~poll.raised

(***************************************************************************)
(* Properties of the loop (specification Spec)                             *)
(***************************************************************************)
\* _process_update has run on an update and built a Message from it
Built == last.called /\ last.built

Sender == last.m.user_id.i

BlockedIds(us) == {us[n].vk_id : n \in {k \in 1..Len(us) : us[k].is_blocked}}

\* The first word of the text of the Message is "/" followed by the name of an
\* administrative command
NamesAdminCommand(text) ==
    /\ Len(text) >= 2
    /\ text[1] = "/"
    /\ text[2] \in {"block", "unblock", "send", "admin", "stats", "broadcast"}
    /\ (Len(text) > 2 => text[3] = " ")

\* C1: a message whose sender is marked blocked when _process_update processes it
\* makes no transport call and changes nothing in the user store or the admin set,
\* whatever its text and whether or not the sender is an admin.
C1_BlockedSenderDropped ==
    (Built /\ Sender \in BlockedIds(last.pre.users))
    => /\ last.calls = <<>>
       /\ users = last.pre.users
       /\ admins = last.pre.admins

\* C2: for a sender who is no admin and is not blocked, a message that names an
\* administrative command is not executed: the blocked flags and the admin set are
\* unchanged and the only transport call is one send_message of the "unknown
\* command" reply to the sender.
C2_UnauthorizedAdminCommand ==
    (Built /\ Sender \notin last.pre.admins /\ Sender \notin BlockedIds(last.pre.users)
        /\ NamesAdminCommand(last.m.text))
    => /\ BlockedIds(users) = BlockedIds(last.pre.users)
       /\ admins = last.pre.admins
       /\ Len(last.calls) = 1
       /\ last.calls[1].op = "send"
       /\ last.calls[1].to = Sender
       /\ last.calls[1].kind = "unknown"
       /\ "admin" \notin {last.route[n] : n \in 1..Len(last.route)}

\* The example of the specification: a registered sender who is no admin issues
\* /block 1 and gets the reply, and user 1 is not blocked
C2_Witness ==
    /\ Built
    /\ Sender = 2
    /\ 2 \notin last.pre.admins
    /\ {1, 2} \subseteq UserIds(last.pre.users)
    /\ last.m.text = <<"/", "block", " ", "1">>
    /\ last.exc = "none"
    /\ Len(last.calls) = 1 /\ last.calls[1].ok /\ last.calls[1].kind = "unknown"
    /\ BlockedIds(users) = {}

\* The flags field of the update _process_update ran on has the outgoing bit set
OutgoingUpdate ==
    /\ last.called
    /\ Len(last.update.update_data) >= 3
    /\ last.update.update_data[3].t = "int"
    /\ (last.update.update_data[3].i \div 2) % 2 = 1

\* C8: no update whose flags field has the outgoing bit set is turned into a Message
\* or passed to AdminController.handle_command or MessageController.handle_message,
\* in the positional and in the keyed shape.
C8_OutgoingNeverDispatched ==
    OutgoingUpdate
    => /\ ~last.built
       /\ last.route = <<>>
       /\ last.calls = <<>>
       /\ ~last.fetched
       /\ users = last.pre.users /\ admins = last.pre.admins

\* An outgoing update in the keyed shape, second of its batch, from a sender the
\* store does not know, was processed
C8_Witness ==
    /\ OutgoingUpdate
    /\ last.update.update_data[4].t = "dict"
    /\ Len(poll.result) = 2 /\ batch = <<>>
    /\ 2 \notin UserIds(users)
    /\ ~last.built

(***************************************************************************)
(* Batches (specification Spec)                                            *)
(***************************************************************************)
\* An update extraction has to reject: another type tag, fewer than 4 elements, a
\* flags field that is no integer, a keyed record whose text is null, no sender id
NoSenderId(e3) ==
    CASE e3.t = "int" -> e3.i = 0
      [] e3.t = "dict" ->
           /\ ("from_id" \notin DOMAIN e3.d \/ e3.d["from_id"] \in {IntEl(0), NoneEl})
           /\ ("user_id" \notin DOMAIN e3.d \/ e3.d["user_id"] \in {IntEl(0), NoneEl})
      [] OTHER -> TRUE
Malformed(u) ==
    \/ u.update_type # IntEl(4)
    \/ Len(u.update_data) < 4
    \/ u.update_data[3].t # "int"
    \/ /\ u.update_data[4].t = "dict"
       /\ "text" \in DOMAIN u.update_data[4].d
       /\ u.update_data[4].d["text"].t = "none"
    \/ NoSenderId(u.update_data[4])

\* The updates of the batch of this cycle that _process_update has not been given yet
Pending == SubSeq(poll.result, Len(poll.result) - Len(batch) + 1, Len(poll.result))

\* C11: a malformed or irrelevant update is dropped on its own: no Message is built
\* from it, nothing is raised, and the updates that follow it in the batch are still
\* to be processed in this cycle.
C11_MalformedDroppedAlone ==
    (last.called /\ Malformed(last.update))
    => /\ ~last.built
       /\ last.exc = "none"
       /\ pc = "dispatch"
       /\ Len(batch) < Len(poll.result)
       /\ last.update = poll.result[Len(poll.result) - Len(batch)]
       /\ batch = Pending

(***************************************************************************)
(* Registration (specification Spec)                                       *)
(***************************************************************************)
\* C12: when a message of a sender without a row in the user store is processed and
\* users.get answers with the profile, the sender has a row in the store once the
\* message was routed to a handler, whichever the route.
C12_RegisteredBeforeRouting ==
    (Built /\ Sender \notin UserIds(last.pre.users) /\ last.profile /\ last.route # <<>>)
    => Sender \in UserIds(users)

(***************************************************************************)
(* General commands (specification Spec)                                   *)
(***************************************************************************)
\* The characters of a text up to its first blank
RECURSIVE UpToBlank(_)
UpToBlank(x) == IF x = <<>> \/ Head(x) = " " THEN <<>> ELSE <<Head(x)>> \o UpToBlank(Tail(x))

\* The text without its leading blanks
RECURSIVE FromSolid(_)
FromSolid(x) == IF x # <<>> /\ Head(x) = " " THEN FromSolid(Tail(x)) ELSE x

\* The name the general handler reads: the first word of the text without the slash
GeneralName(text) == Tail(UpToBlank(text))

\* The name the administrative handler reads, in lower case: the first word of what
\* follows the slash
AdminName(text) ==
    LET word == UpToBlank(FromSolid(Tail(text)))
    IN [n \in 1..Len(word) |-> CASE word[n] = "BLOCK" -> "block"
                                 [] word[n] = "STATS" -> "stats"
                                 [] OTHER -> word[n]]

\* The administrative handler consumes the message: the sender is an admin and the
\* name is an administrative one
ConsumedByAdmin ==
    /\ Sender \in last.pre.admins
    /\ AdminName(last.m.text) \in {<<"block">>, <<"unblock">>, <<"send">>, <<"admin">>,
                                   <<"stats">>, <<"broadcast">>}

\* A command of a sender who is not blocked, left to the general handler, with a name
\* other than start and help
UnknownCommand ==
    /\ Built
    /\ Sender \notin BlockedIds(last.pre.users)
    /\ last.m.text # <<>>
    /\ last.m.text[1] = "/"
    /\ ~ConsumedByAdmin
    /\ GeneralName(last.m.text) \notin {<<"start">>, <<"help">>}

\* C13: such a message, the bare "/" included, makes exactly one transport call, the
\* send_message of the "unknown command" reply to the sender, and never reaches
\* synthesis.
C13_UnknownCommandReply ==
    UnknownCommand
    => /\ Len(last.calls) = 1
       /\ last.calls[1].op = "send"
       /\ last.calls[1].to = Sender
       /\ last.calls[1].kind = "unknown"
       /\ ~last.synth
       /\ \A n \in 1..Len(last.route) : last.route[n] = "general"

\* The bare "/" of an admin got the reply
C13_Witness ==
    /\ UnknownCommand
    /\ last.m.text = <<"/">>
    /\ Sender \in last.pre.admins
    /\ Len(last.calls) = 1 /\ last.calls[1].ok /\ last.calls[1].kind = "unknown"
    /\ last.exc = "none"

(***************************************************************************)
(* Free text (specifications SpecMessage and Spec)                         *)
(***************************************************************************)
\* Every character of the text is a blank; the empty text has none
Blank(text) == \A n \in 1..Len(text) : text[n] = " "

\* The calls of the last message by their operation
CallsOf(op) == {n \in 1..Len(last.calls) : last.calls[n].op = op}

\* C14: for a sender who is not blocked, a message whose text is empty or all
\* whitespace makes exactly one transport call, the send_message of the "empty text"
\* reply to the sender: the synthesis service is not called and nothing is uploaded.
C14_EmptyTextReply ==
    (Built /\ Sender \notin BlockedIds(last.pre.users) /\ Blank(last.m.text))
    => /\ Len(last.calls) = 1
       /\ last.calls[1].op = "send"
       /\ last.calls[1].to = Sender
       /\ last.calls[1].kind = "empty_text"
       /\ ~last.synth
       /\ CallsOf("upload") = {}

\* A text of two blanks from a sender the store did not know got the reply
C14_Witness ==
    /\ Built
    /\ last.m.text = <<" ", " ">>
    /\ Sender \notin UserIds(last.pre.users)
    /\ Len(last.calls) = 1 /\ last.calls[1].ok /\ last.calls[1].kind = "empty_text"
    /\ ~last.synth

\* generate_voice_message was called for the last message and raised
SynthesisFailed == Built /\ last.synth /\ ~last.generated

\* C15: when generate_voice_message raises for a free-text message of a sender who is
\* not blocked, nothing is uploaded, no voice message is sent, and the one transport
\* call is the send_message of the error reply to the sender; once that reply is
\* sent nothing is raised and the loop goes on with the rest of the batch.
C15_SynthesisFailureCaught ==
    SynthesisFailed
    => /\ Sender \notin BlockedIds(last.pre.users)
       /\ CallsOf("upload") = {}
       /\ \A n \in 1..Len(last.calls) : last.calls[n].kind # "voice"
       /\ Len(last.calls) = 1
       /\ last.calls[1].op = "send"
       /\ last.calls[1].to = Sender
       /\ last.calls[1].kind = "error"
       /\ last.calls[1].ok => (last.exc = "none" /\ pc = "dispatch" /\ batch = Pending)

\* Synthesis failed for the first update of a batch of two, the error reply was sent
\* and the second update is still to be processed
C15_Witness ==
    /\ SynthesisFailed
    /\ Len(poll.result) = 2
    /\ Len(batch) = 1
    /\ pc = "dispatch"
    /\ Len(last.calls) = 1 /\ last.calls[1].ok /\ last.calls[1].kind = "error"

(***************************************************************************)
(* Pauses                                                                  *)
(***************************************************************************)
\* The duration d, digits with an optional point and at most two digits after it, in
\* hundredths of a second
Hundredths(d) ==
    LET whole == Run(d, 1, Digits)
        frac == SubSeq(d, whole + 2, Len(d))
    IN 100 * DecimalValue(SubSeq(d, 1, whole))
       + (IF Len(frac) >= 1 THEN 10 * DigitValue(frac[1]) ELSE 0)
       + (IF Len(frac) >= 2 THEN DigitValue(frac[2]) ELSE 0)

\* The punctuation of a pause of duration d
PauseOf(d) ==
    IF Hundredths(d) <= 30 THEN <<",", " ">>
    ELSE IF Hundredths(d) <= 70 THEN <<";", " ">>
    ELSE <<".", " ">>

\* process_pauses was applied to a break tag or a timed pause in its surroundings
PausedToken == vout.op = "process_pauses" /\ vin.form \in {"tag", "timed"}

\* The token became the punctuation of its duration, the text before it and the text
\* after it what process_pauses makes of each on its own
TokenBecomesPause ==
    vout.out = process_pauses(vin.pre) \o PauseOf(vin.arg[1]) \o process_pauses(vin.post)

\* x ends with a pipe followed by a number: digits with an optional fractional part
OpensNumber(x) ==
    \E i \in 1..(Len(x) - 1) :
        /\ x[i] = "|"
        /\ MatchEnd(<<Plus(Digits), Opt({"."}), Star(Digits)>>, 1, x, i + 1) = Len(x) + 1

SpokenTag == vout.op = "generate_voice_message" /\ vin.form = "tag"

\* C17: for a text with a break tag handed to generate_voice_message, synthesis is
\* reached and the text handed to the synthesizer has the punctuation mark of the
\* tag's duration: the tag is mapped to punctuation, not removed like other tags.
C17_BreakTagSpoken ==
    SpokenTag
    => /\ ~vout.raised
       /\ \E n \in 1..Len(vout.out) : vout.out[n] = PauseOf(vin.arg[1])[1]

\* process_pauses was applied to a run of one, two or three pipes between characters
\* that are not pipes, or at an end of the text
PipeRun ==
    /\ vout.op = "process_pauses"
    /\ vin.form = "pipes"
    /\ Len(vin.arg[1]) <= 3
    /\ (vin.pre # <<>> => vin.pre[Len(vin.pre)] # "|")
    /\ (vin.post # <<>> => vin.post[1] # "|")

\* The punctuation of a run of k pipes
RunPauseOf(k) ==
    CASE k = 3 -> <<".", " ">>
      [] k = 2 -> <<";", " ">>
      [] OTHER -> <<",", " ">>

\* The run became its punctuation, the text before it and the text after it what
\* process_pauses makes of each on its own
RunBecomesPause ==
    vout.out = process_pauses(vin.pre) \o RunPauseOf(Len(vin.arg[1])) \o process_pauses(vin.post)

\* x begins with a number followed by a pipe
ClosesNumber(x) ==
    \E i \in 2..Len(x) :
        /\ x[i] = "|"
        /\ MatchEnd(<<Plus(Digits), Opt({"."}), Star(Digits)>>, 1, SubSeq(x, 1, i - 1), 1) = i

\* The run is a lone pipe that, with a number next to it and the pipe beyond, makes a
\* timed token
DelimitsToken == Len(vin.arg[1]) = 1 /\ (OpensNumber(vin.pre) \/ ClosesNumber(vin.post))

AdjacentPipes ==
    /\ vout.op = "process_pauses"
    /\ vin.form = "pipes"
    /\ Len(vin.arg[1]) >= 2
    /\ \A n \in 1..Len(vin.pre) : vin.pre[n] # "|"
    /\ \A n \in 1..Len(vin.post) : vin.post[n] # "|"

\* C19: the single-pipe rule applies only to a pipe with no pipe next to it in the
\* input: a pipe next to another pipe, as any pipe of a run of four or five, is
\* never rewritten to ', ', so the result for a text whose pipes are all in one run of
\* two or more has no comma.
C19_AdjacentPipeNeverComma ==
    AdjacentPipes => \A n \in 1..Len(vout.out) : vout.out[n] # ","

(***************************************************************************)
(* Stress marks                                                            *)
(***************************************************************************)
\* process_stress_marks was applied to word[stressed]rest or word{stressed}rest in
\* its surroundings
StressedWord == vout.op = "process_stress_marks" /\ vin.form \in {"bracket", "brace"}

\* x has no bracket and no brace
NoMarker(x) == \A n \in 1..Len(x) : x[n] \notin {"[", "]", "{", "}"}

Marked(x) == vout.op = "process_control_marks" /\ vin.form = "plain" /\ vin.arg[1] = x

\* C21: the documented stress example holds: process_control_marks applied to
\* 'u[udar]darenie' returns "u'udarenie".
C21_StressExampleHolds ==
    Marked(StressExample) => vout.out = <<"u", "'", "u", "d", "a", "r", "e", "n", "i", "e">>

\* C22: the documented pause example holds: process_control_marks applied to
\* 'Privet | kak dela?' returns 'Privet , kak dela?', the comma followed by exactly
\* one space.
C22_PauseExampleHolds ==
    Marked(PauseExample)
    => vout.out = <<"P", "r", "i", "v", "e", "t", " ", ",", " ", "k", "a", "k", " ",
                    "d", "e", "l", "a", "?">>

(***************************************************************************)
(* Stress rewriting twice                                                  *)
(***************************************************************************)
\* process_stress_marks was applied to a text with an apostrophe
StressedApostrophe ==
    /\ vout.op = "process_stress_marks"
    /\ \E n \in 1..Len(TextOf(vin)) : TextOf(vin)[n] = "'"

\* No closing bracket or brace of x is followed, at once or after word characters,
\* by an opening one: no stress mark starts in the rest of another
NoChain(x) ==
    \A i \in 1..Len(x) :
        x[i] \in {"]", "}"}
        => \E j \in {i + 1 + Run(x, i + 1, WordChars)} : ~(j <= Len(x) /\ x[j] \in {"[", "{"})

Spoken == vout.op = "generate_voice_message" /\ ~vout.raised

\* C24: the text handed to the synthesizer is the form of the input after tag
\* stripping, whitespace collapse and markup rewriting when that form has at most
\* 1000 characters, and its first 1000 characters followed by '...' when it is
\* longer; a text of 1500 characters reaches synthesis as its first 1000 characters
\* and the ellipsis.
C24_TruncatedWithEllipsis ==
    /\ Spoken
       => \E form \in {process_control_marks(clean_text(TextOf(vin)))} :
             /\ Len(form) <= 1000 => vout.out = form
             /\ Len(form) > 1000 => vout.out = SubSeq(form, 1, 1000) \o <<".", ".", ".">>
    /\ Spoken /\ Len(vin.arg[1]) = 1500 /\ vin.arg[1] = LongText(1500)
       => vout.out = LongText(1000) \o <<".", ".", ".">>

\* A text of 999 characters and a pipe, 1001 characters once the pipe is rewritten,
\* reached synthesis as its 999 characters, the comma and the ellipsis
C24_Witness ==
    /\ Spoken
    /\ vin.arg[1] = LongText(999) \o <<"|">>
    /\ vout.out = LongText(999) \o <<",", ".", ".", ".">>

(***************************************************************************)
(* Broadcast                                                               *)
(***************************************************************************)
\* The rows /broadcast matches for the text of the last message: every user, or the
\* users who are not blocked for the filter blocked=0, latest registration first
MatchedRows ==
    IF \E n \in 1..Len(last.m.text) : last.m.text[n] = "blocked="
    THEN get_all_users(last.pre.users, NoFilter, [any |-> FALSE, v |-> FALSE])
    ELSE get_all_users(last.pre.users, NoFilter, NoFlag)

\* The last message was a /broadcast with a text, run for an admin, that matched
\* users
BroadcastRan ==
    /\ Built
    /\ last.route = <<"admin">>
    /\ last.m.text \in {<<"/", "broadcast", " ", "hello">>,
                        <<"/", "broadcast", " ", "blocked=", "0", " ", "hello">>}
    /\ MatchedRows # <<>>

\* The attempts among the first k calls that succeeded
Succeeded(k) == {n \in 1..k : last.calls[n].ok}

\* C25: a /broadcast run for an admin with matched users makes one send attempt per
\* matched user, in list order, the next whether or not the one before failed, and
\* then the report to the admin, whose counts are sent = the attempts that
\* succeeded, failed = the others, sent + failed = the number of matched users.
C25_BroadcastTally ==
    BroadcastRan
    => \E k \in {Len(MatchedRows)} :
          /\ Len(last.calls) >= k + 1
          /\ \A n \in 1..k : /\ last.calls[n].op = "send"
                             /\ last.calls[n].kind = "broadcast"
                             /\ last.calls[n].to = MatchedRows[n].vk_id
          /\ \A n \in (k + 1)..Len(last.calls) : last.calls[n].kind # "broadcast"
          /\ last.calls[k + 1].op = "send"
          /\ last.calls[k + 1].kind = "report"
          /\ last.calls[k + 1].to = Sender
          /\ last.calls[k + 1].info
                = <<Cardinality(Succeeded(k)), k - Cardinality(Succeeded(k)), k>>

\* Two users matched, the attempt for the first failed, the attempt for the second
\* was made and succeeded, and the report counts one sent and one failed
C25_Witness ==
    /\ BroadcastRan
    /\ Len(MatchedRows) = 2
    /\ ~last.calls[1].ok
    /\ last.calls[2].ok
    /\ last.calls[3].info = <<1, 1, 2>>

(***************************************************************************)
(* Argument errors of the administrative commands (specification Spec)     *)
(***************************************************************************)
\* The words that follow the command name in the text of the Message
ArgWords == Tail(split(Tail(last.m.text)))

\* A word of decimal digits
Numeric(w) == w # <<>> /\ \A n \in 1..Len(w) : w[n] \in Digits

\* A filter of /broadcast whose value is not a number
BadFilter(w) == Head(w) \in {"gender=", "blocked="} /\ ~Numeric(Tail(w))

\* An admin sent an administrative command without its arguments or with an
\* identifier (a filter value, for /broadcast) that is not a number
BadArguments ==
    /\ Built
    /\ last.m.text # <<>> /\ last.m.text[1] = "/"
    /\ ConsumedByAdmin
    /\ \E name \in {AdminName(last.m.text)} :
          \/ name \in {<<"block">>, <<"unblock">>, <<"admin">>}
             /\ (ArgWords = <<>> \/ ~Numeric(ArgWords[1]))
          \/ name = <<"send">> /\ (Len(ArgWords) < 2 \/ ~Numeric(ArgWords[1]))
          \/ name = <<"broadcast">>
             /\ (ArgWords = <<>> \/ \E n \in 1..Len(ArgWords) : BadFilter(ArgWords[n]))

\* The reply that answers the error: the usage text for a command without arguments,
\* the missing-text reply for /send with an identifier alone, the format reply for
\* an identifier that is no number, and for a filter value of /broadcast that is no
\* number the reply of its except branch, which quotes the ValueError
ArgumentReply ==
    IF ArgWords = <<>> THEN "usage"
    ELSE IF AdminName(last.m.text) = <<"broadcast">> THEN "error"
    ELSE IF AdminName(last.m.text) = <<"send">> /\ Len(ArgWords) < 2 THEN "no_text"
    ELSE "bad_id"

\* C26: an administrative command of an admin with missing arguments or with an
\* identifier that is not a number is answered by exactly one send_message, the
\* usage or format reply to that admin; no blocked flag and no row of the store
\* changes, the admin set is unchanged, nothing is sent to anyone else, and the
\* error is not raised: once the reply is delivered, no exception leaves the handler.
C26_ArgumentErrorsAnswered ==
    BadArguments
    => /\ Len(last.calls) = 1
       /\ last.calls[1].op = "send"
       /\ last.calls[1].to = Sender
       /\ last.calls[1].kind = ArgumentReply
       /\ users = last.pre.users
       /\ admins = last.pre.admins
       /\ last.route = <<"admin">>
       /\ (last.calls[1].ok => last.exc = "none")

\* '/unblock x' of an admin was answered with the format reply while a user was
\* blocked, and the user stayed blocked
C26_Witness ==
    /\ BadArguments
    /\ AdminName(last.m.text) = <<"unblock">>
    /\ ArgWords = <<<<"x">>>>
    /\ BlockedIds(users) # {}
    /\ Len(last.calls) = 1 /\ last.calls[1].ok /\ last.calls[1].kind = "bad_id"
    /\ last.exc = "none"

(***************************************************************************)
(* Fatal errors (specification Spec)                                       *)
(***************************************************************************)
\* The process is inside the while loop of run, or about to enter it
InLoop(p) == p \in {"poll", "dispatch", "sleep"}

\* C27: a failure of the session bootstrap, at start-up or in a reinitialization,
\* takes the process to the pause of the outer loop, after which the poll cycle is
\* tried again; such a failure never ends the process, and the loop is left only by
\* an external interrupt.
C27_FatalErrorRetried ==
    [][/\ (pc = "start" => InLoop(pc'))
       /\ ((pc = "poll" /\ poll'.called /\ poll'.boots > 0 /\ ~poll'.boot.ok)
             => pc' = "sleep")
       /\ ((InLoop(pc) /\ ~InLoop(pc')) => pc' = "stopped")]_vars

(***************************************************************************)
(* Admins and blocked users (specification Spec)                           *)
(***************************************************************************)
\* C28: whatever messages and administrative commands were processed, no user is at
\* once in the admin set and marked blocked in the user store.
C28_NoBlockedAdmin == admins \cap BlockedIds(users) = {}

(***************************************************************************)
(* The batch of a cycle (specification Spec)                               *)
(***************************************************************************)
\* C29: every update of the batch get_updates returned is passed to _process_update
\* before get_updates is called again, also when the handling of an earlier update
\* of the batch raises: while the loop runs, updates leave the pending part of the
\* batch only one at a time, by being processed, and the next cycle starts with
\* none of them pending.
C29_WholeBatchProcessed ==
    [][/\ ((pc = "dispatch" /\ InLoop(pc')) => (batch' = batch \/ batch' = Tail(batch)))
       /\ ((InLoop(pc) /\ pc' = "poll") => batch = <<>>)]_vars

(***************************************************************************)
(* Routing (specification Spec)                                            *)
(***************************************************************************)
\* The text of the Message is a command
IsCommand == last.m.text # <<>> /\ last.m.text[1] = "/"

\* The route the Message is to take, read from the Message and the tables as they
\* were before it was processed
RouteOf ==
    IF IsCommand /\ ConsumedByAdmin THEN "admin"
    ELSE IF Sender \in BlockedIds(last.pre.users) THEN "blocked"
    ELSE IF IsCommand THEN "general"
    ELSE IF Blank(last.m.text) THEN "empty"
    ELSE "synthesis"

\* The replies of the general command handler
GeneralReplies == {"welcome", "help", "unknown"}

\* C30: a Message built by _process_update is consumed by exactly one route: the
\* administrative handler, the general command handler, the empty-text reply, the
\* synthesis path or the drop of a blocked sender.  A command the administrative
\* handler ran is never given to handle_message as well (no general reply, no
\* registration of the sender, no synthesis), and a command never reaches synthesis.
C30_ExactlyOneRoute ==
    Built
    => /\ last.route = <<RouteOf>>
       /\ (RouteOf = "admin"
             => /\ \A n \in 1..Len(last.calls) : last.calls[n].kind \notin GeneralReplies
                /\ ~last.fetched
                /\ ~last.synth)
       /\ (IsCommand => ~last.synth /\ CallsOf("upload") = {})
       /\ (RouteOf = "blocked" => last.calls = <<>>)

\* '/stats' of an admin unknown to the store was answered by the administrative
\* handler alone
C30_Witness ==
    /\ Built
    /\ last.m.text = <<"/", "stats">>
    /\ Sender \in last.pre.admins
    /\ Sender \notin UserIds(last.pre.users)
    /\ last.route = <<"admin">>
    /\ Len(last.calls) = 1 /\ last.calls[1].ok /\ last.calls[1].kind = "stats"
    /\ users = last.pre.users

====
